---- MODULE Spec2Model ----
(***************************************************************************)
(* go-coverage-report: the coverage delta engine of the Report.            *)
(*                                                                         *)
(* File identifiers are Go strings; they are modelled as sequences of      *)
(* one-character strings so that suffix tests, splitting and ordering are  *)
(* computed character by character.  Go maps are functions whose DOMAIN    *)
(* is the set of keys present.  A pointer that may be nil is a sequence    *)
(* of length 0 (nil) or 1.                                                 *)
(***************************************************************************)
EXTENDS Integers, Sequences, FiniteSets, TLC

\* ---------------------------------------------------------------- bounds
MaxLine == 2        \* source lines are 1..MaxLine
MaxStmt == 2        \* a block's NumStmt is in 0..MaxStmt
MaxBlocks == 2      \* blocks per profile
MaxEstLines == 22   \* the longest block of the proportional-estimate runs
MaxEstStmt == 22    \* the largest NumStmt of the proportional-estimate runs
MaxRuns == 2        \* calls of calculateNewCodeCoverage on one Report

Lines == 1..MaxLine

\* ---------------------------------------------------------------- strings
\* The characters used in file identifiers, in byte order
\* ('-' < '.' < '/' < '_' < 'a').
Alphabet == <<"-", ".", "/", "_", "a", "d", "e", "g", "m", "o", "p", "r", "s", "t">>

Rank(ch) == CHOOSE i \in 1..Len(Alphabet) : Alphabet[i] = ch

\* Go's < on strings: bytewise lexicographic order.
RECURSIVE StrLess(_, _)
StrLess(s, t) ==
    IF t = <<>> THEN FALSE
    ELSE IF s = <<>> THEN TRUE
    ELSE IF Rank(Head(s)) < Rank(Head(t)) THEN TRUE
    ELSE IF Rank(Head(s)) > Rank(Head(t)) THEN FALSE
    ELSE StrLess(Tail(s), Tail(t))

\* strings.HasPrefix(s, prefix)
HasPrefix(s, prefix) ==
    /\ Len(prefix) <= Len(s)
    /\ SubSeq(s, 1, Len(prefix)) = prefix

\* strings.TrimPrefix(s, prefix)
TrimPrefix(s, prefix) ==
    IF HasPrefix(s, prefix) THEN SubSeq(s, Len(prefix) + 1, Len(s)) ELSE s

\* strings.HasSuffix(s, suffix)
HasSuffix(s, suffix) ==
    /\ Len(suffix) <= Len(s)
    /\ SubSeq(s, Len(s) - Len(suffix) + 1, Len(s)) = suffix

\* strings.Split(s, "/"): the segments between separators (never empty list).
RECURSIVE SplitAcc(_, _)
SplitAcc(s, cur) ==
    IF s = <<>> THEN <<cur>>
    ELSE IF Head(s) = "/" THEN <<cur>> \o SplitAcc(Tail(s), <<>>)
    ELSE SplitAcc(Tail(s), Append(cur, Head(s)))

Split(s) == SplitAcc(s, <<>>)

\* filepath.Join(elems...): empty elements are ignored, the rest are joined
\* by "/" (the identifiers of the model hold no "." or ".." segment and no
\* doubled separator, so Clean leaves the joined path as it is).
RECURSIVE Join(_)
Join(elems) ==
    IF elems = <<>> THEN <<>>
    ELSE IF Head(elems) = <<>> THEN Join(Tail(elems))
    ELSE LET rest == Join(Tail(elems))
         IN IF rest = <<>> THEN Head(elems) ELSE Head(elems) \o <<"/">> \o rest

\* sort.Strings: insertion into a sorted list, repeated.
RECURSIVE InsertSorted(_, _)
InsertSorted(x, sorted) ==
    IF sorted = <<>> THEN <<x>>
    ELSE IF StrLess(Head(sorted), x) THEN <<Head(sorted)>> \o InsertSorted(x, Tail(sorted))
    ELSE <<x>> \o sorted

RECURSIVE SortStrings(_)
SortStrings(list) ==
    IF list = <<>> THEN <<>>
    ELSE InsertSorted(Head(list), SortStrings(Tail(list)))

\* ---------------------------------------------------------------- files
FQ == <<"r", "/", "p", "/", "a">>       \* "r/p/a": import-path qualified
RP == <<"p", "/", "a">>                 \* "p/a":   repository relative
BA == <<"a">>                           \* "a":     base name
MA == <<"m", "a">>                      \* "ma":    another file, ending in "a"

\* filepath.Dir(path) of a clean relative path: all but the last element,
\* "." when there is no separator.
RECURSIVE Dir(_)
Dir(path) ==
    IF path = <<>> THEN <<".">>
    ELSE IF path[Len(path)] = "/"
         THEN (IF Len(path) = 1 THEN <<"/">> ELSE SubSeq(path, 1, Len(path) - 1))
    ELSE Dir(SubSeq(path, 1, Len(path) - 1))

\* The list of a set of strings in sort.Strings order.
RECURSIVE SortedList(_)
SortedList(set) ==
    IF set = {} THEN <<>>
    ELSE LET least == CHOOSE x \in set : \A y \in set \ {x} : StrLess(x, y)
         IN <<least>> \o SortedList(set \ {least})

\* changedPackages: the directories of the changed files, collected as the
\* keys of a map and sorted.
changedPackages(changedFiles) ==
    SortedList({Dir(changedFiles[i]) : i \in DOMAIN changedFiles})

\* ---------------------------------------------------------------- profiles
\* ProfileBlock{StartLine, StartCol, EndLine, EndCol, NumStmt, Count}
Block(sl, sc, el, ec, n, cnt) ==
    [StartLine |-> sl, StartCol |-> sc, EndLine |-> el, EndCol |-> ec,
     NumStmt |-> n, Count |-> cnt]

RECURSIVE SumStmt(_)
SumStmt(blocks) ==
    IF blocks = <<>> THEN 0 ELSE Head(blocks).NumStmt + SumStmt(Tail(blocks))

RECURSIVE SumCovered(_)
SumCovered(blocks) ==
    IF blocks = <<>> THEN 0
    ELSE (IF Head(blocks).Count > 0 THEN Head(blocks).NumStmt ELSE 0)
         + SumCovered(Tail(blocks))

\* Profile of one file: its blocks and the aggregate counts of 4.1,
\* total = sum(numStmt), covered = sum(numStmt where count > 0).
ProfileOf(blocks) ==
    [Blocks |-> blocks, TotalStmt |-> SumStmt(blocks),
     CoveredStmt |-> SumCovered(blocks)]

\* Variant: the key is made of the start position only.
blockKey_StartOnly(b) == <<b.StartLine, b.StartCol, b.StartLine, b.StartCol>>

\* The four numbers are written in decimal with separators between them, so
\* two keys are equal exactly when the four numbers are: the key is the tuple.
\* fmt.Sprintf("%d:%d-%d:%d", StartLine, StartCol, EndLine, EndCol)
blockKey(b) == <<b.StartLine, b.StartCol, b.EndLine, b.EndCol>>

\* makeBlockMap: the key set of the map built from the old profile's blocks.
makeBlockMap(blocks) == {blockKey(blocks[i]) : i \in 1..Len(blocks)}

\* ---------------------------------------------------------------- float64
(***************************************************************************)
(* Go's float64 arithmetic as used by the proportional estimate:           *)
(* IEEE 754 binary64, 53 significant bits, round to nearest, ties to even. *)
(* A float >= 0 is [sig, exp] with value sig * 2^exp, where sig is an      *)
(* integer of at most 53 significant bits written as its digits in base    *)
(* 2^13, most significant first (53 bits are a leading 1 and four such     *)
(* digits).  Zero has sig = <<>>.  The operands of the estimate are        *)
(* integers below 2^17 with a result below 2^17, far from the exponent     *)
(* limits: no overflow,                                                    *)
(* subnormal or NaN arises.                                                *)
(***************************************************************************)
DigitBits == 13
DigitBase == 8192          \* 2^DigitBits
FracDigits == 4            \* 1 + FracDigits * DigitBits = 53 significant bits

RECURSIVE Pow2(_)
Pow2(n) == IF n = 0 THEN 1 ELSE 2 * Pow2(n - 1)

RECURSIVE BitLen(_)
BitLen(n) == IF n = 0 THEN 0 ELSE 1 + BitLen(n \div 2)

RECURSIVE DigitsToInt(_)
DigitsToInt(ds) ==
    IF ds = <<>> THEN 0
    ELSE DigitBase * DigitsToInt(SubSeq(ds, 1, Len(ds) - 1)) + ds[Len(ds)]

\* ds + carry, the carry entering at the last digit; a carry out of the first
\* digit makes the number one digit longer.
RECURSIVE AddCarry(_, _)
AddCarry(ds, carry) ==
    IF carry = 0 THEN ds
    ELSE IF ds = <<>> THEN <<carry>>
    ELSE LET v == ds[Len(ds)] + carry
         IN Append(AddCarry(SubSeq(ds, 1, Len(ds) - 1), v \div DigitBase),
                   v % DigitBase)

\* n digits of the quotient r/d (r < d), and the remainder left after them.
RECURSIVE DivDigits(_, _, _)
DivDigits(r, d, n) ==
    IF n = 0 THEN [digits |-> <<>>, rem |-> r]
    ELSE LET rest == DivDigits((r * DigitBase) % d, d, n - 1)
         IN [digits |-> <<(r * DigitBase) \div d>> \o rest.digits, rem |-> rest.rem]

\* the least s >= 0 with a * 2^s >= b
RECURSIVE ScaleUp(_, _, _)
ScaleUp(a, b, s) == IF a >= b THEN s ELSE ScaleUp(2 * a, b, s + 1)

\* The quotient digits q of an/bn (bn <= an < 2 * bn) as a float: rounded up
\* when the remainder is more than half of bn, or half and the last bit odd.
FloatDivRounded(q, bn, exp) ==
    [sig |-> AddCarry(<<1>> \o q.digits,
                      IF 2 * q.rem > bn
                         \/ (2 * q.rem = bn /\ q.digits[FracDigits] % 2 = 1)
                      THEN 1 ELSE 0),
     exp |-> exp]

\* a/b with a scaled by 2^s and b by 2^t so that the quotient is in [1, 2).
FloatDivScaled(a, b, s, t) ==
    FloatDivRounded(DivDigits(a * Pow2(s) - b * Pow2(t), b * Pow2(t), FracDigits),
                    b * Pow2(t), t - s - FracDigits * DigitBits)

FloatDivShift(a, b, s) ==
    FloatDivScaled(a, b, s, IF s > 0 THEN 0 ELSE ScaleUp(2 * b, a + 1, 0))

\* float64(a) / float64(b) for integers a >= 0, b >= 1: the quotient's first
\* 53 bits, rounded to nearest, ties to even.
FloatDiv(a, b) ==
    IF a = 0 THEN [sig |-> <<>>, exp |-> 0]
    ELSE FloatDivShift(a, b, ScaleUp(a, b, 0))

\* ds * n for an integer n >= 1, from the last digit with a running carry.
RECURSIVE MulDigits(_, _, _)
MulDigits(ds, n, carry) ==
    IF ds = <<>> THEN (IF carry = 0 THEN <<>> ELSE AddCarry(<<>>, carry))
    ELSE LET v == ds[Len(ds)] * n + carry
         IN Append(MulDigits(SubSeq(ds, 1, Len(ds) - 1), n, v \div DigitBase),
                   v % DigitBase)

\* The digits of a carry that is itself above one digit.
RECURSIVE Normalize(_)
Normalize(ds) ==
    IF ds = <<>> THEN <<>>
    ELSE IF ds[1] = 0 THEN Normalize(Tail(ds))
    ELSE IF ds[1] >= DigitBase
         THEN Normalize(<<ds[1] \div DigitBase, ds[1] % DigitBase>> \o Tail(ds))
    ELSE ds

\* The last two digits (low) of a product with the bits below unit (a power
\* of two) rounded away: to nearest, ties to even.
RoundLow(low, unit) ==
    LET rem == low % unit
        odd == (low \div unit) % 2 = 1
        up == 2 * rem > unit \/ (2 * rem = unit /\ odd)
    IN low - rem + (IF up THEN unit ELSE 0)

FloatMulRounded(p, rounded, exp) ==
    [sig |-> AddCarry(SubSeq(p, 1, Len(p) - 2), rounded \div (DigitBase * DigitBase))
             \o <<(rounded % (DigitBase * DigitBase)) \div DigitBase,
                  rounded % DigitBase>>,
     exp |-> exp]

\* The exact product p (digits) of a 53-bit significand and an integer:
\* the bits beyond the 53rd, counted from the digits above the last
\* FracDigits, are rounded away.
FloatMulProduct(p, exp) ==
    FloatMulRounded(p,
        RoundLow(DigitsToInt(SubSeq(p, Len(p) - 1, Len(p))),
                 Pow2(BitLen(DigitsToInt(SubSeq(p, 1, Len(p) - FracDigits))) - 1)),
        exp)

\* float64(n) * x for an integer n >= 0 (exactly representable) and a float x
\* of 53 significant bits in 1 + FracDigits digits: the exact product,
\* rounded once.
FloatMulInt(n, x) ==
    IF n = 0 \/ x.sig = <<>> THEN [sig |-> <<>>, exp |-> 0]
    ELSE FloatMulProduct(Normalize(MulDigits(x.sig, n, 0)), x.exp)

\* int64(x) for a float x >= 0 below 2^31: truncation toward zero.
FloatToInt(x) ==
    IF x.sig = <<>> THEN 0
    ELSE IF x.exp >= 0 THEN DigitsToInt(x.sig) * Pow2(x.exp)
    ELSE LET k == 0 - x.exp
             w == k \div DigitBits
         IN IF w >= Len(x.sig) THEN 0
            ELSE DigitsToInt(SubSeq(x.sig, 1, Len(x.sig) - w)) \div Pow2(k % DigitBits)

\* ---------------------------------------------------------------- state
VARIABLES
    Old,            \* Report.Old.Files: file identifier -> profile
    New,            \* Report.New.Files
    ChangedFiles,   \* Report.ChangedFiles
    DiffInfo,       \* Report.DiffInfo: <<>> is nil, <<files>> holds DiffInfo.Files
    astMapper,      \* Report.astMapper is not nil
    astCache,       \* Report.astCache: file identifier -> statement lines
    fs,             \* the source tree: path -> statement lines of the parsable files
    pc,             \* "idle", or "calc" inside calculateNewCodeCoverage
    idx,            \* position of the loop over ChangedFiles
    totalNew,       \* the running sums of the call in progress
    coveredNew,
    log,            \* per changed file of the call in progress: what was added and why
    results,        \* <<totalNew, coveredNew>> of every finished call
    callsLeft,      \* calls of calculateNewCodeCoverage still to be made
    newCodeBlocks,  \* <<>> or <<list>>: the result of getNewCodeBlocks
    ChangedPackages, \* Report.ChangedPackages
    MinCoverage,    \* Report.MinCoverage, a whole number of percent
    report,         \* what Title and Markdown have written so far
    trimmed,        \* <<>>, or <<prefix>> once TrimPrefix was called
    diffInput,      \* the change-set file handed to the parser
    parser          \* the parser's position, locals and return values

vars == <<Old, New, ChangedFiles, DiffInfo, astMapper, astCache, fs, pc, idx,
          totalNew, coveredNew, log, results, callsLeft, newCodeBlocks,
          ChangedPackages, MinCoverage, report, trimmed, diffInput, parser>>

\* Nothing rendered yet; no change-set file given; the parser not entered.
NoReport == [title |-> <<>>, summary |-> <<>>, packages |-> <<>>, files |-> <<>>,
             details |-> <<>>]
NoDiffInput == [format |-> "none", status |-> "ok", failAt |-> 0, items |-> <<>>,
                lines |-> <<>>, data |-> <<>>]
ParserIdle == [pc |-> "idle", pos |-> 0, currentFile |-> <<>>, currentLine |-> 0,
               Files |-> <<>>, ret |-> <<>>]

\* What calculateNewCodeCoverage and getNewCodeBlocks never write.
rendering == <<ChangedPackages, MinCoverage, report, trimmed>>
parsing == <<diffInput, parser>>

inputs == <<Old, New, ChangedFiles, DiffInfo, astMapper, fs>>

\* ---------------------------------------------------------------- change-set
\* A FileDiff: the line numbers present (true) in AddedLines and ModifiedLines.
FileDiff(added, modified) == [AddedLines |-> added, ModifiedLines |-> modified]

\* Variant: no exact lookup first; the query is a suffix of itself, so the
\* exact key is only one of the suffix matches.
findFileDiff_NoExactFirst(d, fileName) ==
    IF d = <<>> THEN {}
    ELSE IF {diffPath \in DOMAIN d[1] : HasSuffix(fileName, diffPath)} # {}
    THEN {diffPath \in DOMAIN d[1] : HasSuffix(fileName, diffPath)}
    ELSE {diffPath \in DOMAIN d[1] : HasSuffix(diffPath, fileName)}

\* DiffInfo.findFileDiff: the keys it can return, {} when it returns nil.
\* A Go map is ranged over in an unspecified order, so with several suffix
\* matches any of them can be the first one found.
findFileDiff(d, fileName) ==
    IF d = <<>> THEN {}
    ELSE LET files == d[1]
             bySuffix == {diffPath \in DOMAIN files : HasSuffix(fileName, diffPath)}
             byReverse == {diffPath \in DOMAIN files : HasSuffix(diffPath, fileName)}
         IN IF fileName \in DOMAIN files THEN {fileName}
            ELSE IF bySuffix # {} THEN bySuffix
            ELSE byReverse

\* The results of findFileDiff as nil-able pointers: <<>> or <<key>>.
findFileDiffResults(d, fileName) ==
    IF findFileDiff(d, fileName) = {} THEN {<<>>}
    ELSE {<<k>> : k \in findFileDiff(d, fileName)}

changedLine(fileDiff, line) ==
    line \in fileDiff.AddedLines \/ line \in fileDiff.ModifiedLines

\* DiffInfo.IsLineAdded, for the entry findFileDiff returned (found).
IsLineAdded(d, found, lineNum) ==
    IF found = <<>> THEN FALSE ELSE changedLine(d[1][found[1]], lineNum)

\* DiffInfo.IsLineInRange, for the entry findFileDiff returned (found).
IsLineInRange(d, found, startLine, endLine) ==
    IF found = <<>> THEN FALSE
    ELSE \E line \in startLine..endLine : changedLine(d[1][found[1]], line)

\* ---------------------------------------------------------------- statement index
Testdata == <<"t", "e", "s", "t", "d", "a", "t", "a">>

\* Report.resolveFilePath: the name, the name without its first i segments
\* for every i, and the name under testdata.
resolveFilePath(fileName) ==
    LET parts == Split(fileName)
    IN <<fileName>>
       \o [i \in 1..(Len(parts) - 1) |-> Join(SubSeq(parts, i + 1, Len(parts)))]
       \o <<Join(<<Testdata, fileName>>)>>

\* The loop over the candidate paths: the first one GetStatementLines can
\* read and parse, <<>> when it fails on every path.
firstParsable(paths) ==
    LET ok == {i \in 1..Len(paths) : paths[i] \in DOMAIN fs}
    IN IF ok = {} THEN <<>>
       ELSE <<paths[CHOOSE i \in ok : \A j \in ok : i <= j]>>

\* Variant: every changed line of the block is counted, statement or not.
countChangedStatements_AnyLine(block, fileDiff, statementLines, cache) ==
    IF \A line \in block.StartLine..block.EndLine : ~changedLine(fileDiff, line)
    THEN [count |-> -1, covered |-> FALSE, cache |-> cache]
    ELSE [count |-> Cardinality({line \in block.StartLine..block.EndLine :
                        changedLine(fileDiff, line)}),
          covered |-> block.Count > 0, cache |-> cache]

\* The counting loop of countStatementsInBlockUsingAST over the statement
\* lines found for the file: -1 when no changed line starts a statement.
countChangedStatements(block, fileDiff, statementLines, cache) ==
    IF \A line \in block.StartLine..block.EndLine :
          ~(changedLine(fileDiff, line) /\ line \in statementLines)
    THEN [count |-> -1, covered |-> FALSE, cache |-> cache]
    ELSE [count |-> Cardinality({line \in block.StartLine..block.EndLine :
                        changedLine(fileDiff, line) /\ line \in statementLines}),
          covered |-> block.Count > 0, cache |-> cache]

\* Variant: a failure on every path counts as an index without statements.
countAfterLookup_EmptyOnFailure(fileName, block, fileDiff, cache, path) ==
    IF path = <<>> THEN [count |-> 0, covered |-> FALSE, cache |-> cache]
    ELSE countChangedStatements(block, fileDiff, fs[path[1]],
                                (fileName :> fs[path[1]]) @@ cache)

\* The cache miss: the candidate paths are tried, the first success is cached.
countAfterLookup(fileName, block, fileDiff, cache, path) ==
    IF path = <<>> THEN [count |-> -1, covered |-> FALSE, cache |-> cache]
    ELSE countChangedStatements(block, fileDiff, fs[path[1]],
                                (fileName :> fs[path[1]]) @@ cache)

\* Variant: the cache is not read; the index is built for every block.
countStatementsInBlockUsingAST_Rebuilt(fileName, block, fileDiff, cache) ==
    IF ~astMapper THEN [count |-> -1, covered |-> FALSE, cache |-> cache]
    ELSE countAfterLookup(fileName, block, fileDiff, cache,
                          firstParsable(resolveFilePath(fileName)))

\* Report.countStatementsInBlockUsingAST with the cache as it is passed in:
\* count is -1 when the caller has to fall back; cache is the cache after
\* the call.
countStatementsInBlockUsingAST(fileName, block, fileDiff, cache) ==
    IF ~astMapper THEN [count |-> -1, covered |-> FALSE, cache |-> cache]
    ELSE IF fileName \in DOMAIN cache
    THEN countChangedStatements(block, fileDiff, cache[fileName], cache)
    ELSE countAfterLookup(fileName, block, fileDiff, cache,
                          firstParsable(resolveFilePath(fileName)))

\* ---------------------------------------------------------------- delta calculator
\* The proportional estimate of calculateNewCodeCoverageFromDiff for one block:
\* int64(float64(NumStmt) * (float64(changed) / float64(lines))), at least 1.
atLeastOne(estimate, changedLinesInBlock) ==
    IF estimate = 0 /\ changedLinesInBlock > 0 THEN 1 ELSE estimate

\* Variant: the proportion is taken upside down, lines over changed lines.
estimatedStmts_Inverted(block, changedLinesInBlock) ==
    atLeastOne(FloatToInt(FloatMulInt(block.NumStmt,
                   FloatDiv(block.EndLine - block.StartLine + 1, changedLinesInBlock))),
               changedLinesInBlock)

estimatedStmts(block, changedLinesInBlock) ==
    atLeastOne(FloatToInt(FloatMulInt(block.NumStmt,
                   FloatDiv(changedLinesInBlock, block.EndLine - block.StartLine + 1))),
               changedLinesInBlock)

\* Variant: a covered block adds its whole NumStmt to coveredNew.
blockEntry_CoveredWhole(block, path, changed, stmts, cache) ==
    [block |-> block, path |-> path, changed |-> changed, total |-> stmts,
     covered |-> IF block.Count > 0 THEN block.NumStmt ELSE 0, cache |-> cache]

blockEntry(block, path, changed, stmts, cache) ==
    [block |-> block, path |-> path, changed |-> changed, total |-> stmts,
     covered |-> IF block.Count > 0 THEN stmts ELSE 0, cache |-> cache]

\* The fallback of the loop body when the statement count is not usable.
proportionalEntry(block, changedLinesInBlock, cache) ==
    IF changedLinesInBlock > 0
    THEN blockEntry(block, "proportional", changedLinesInBlock,
                    estimatedStmts(block, changedLinesInBlock), cache)
    ELSE blockEntry(block, "none", 0, 0, cache)

\* Variant: the changed lines of the file are counted, not those of the block.
changedLines_WholeFile(block, fileDiff) ==
    Cardinality(fileDiff.AddedLines \cup fileDiff.ModifiedLines)

\* changedLinesInBlock: the lines of the block that IsLineAdded accepts.
changedLines(block, fileDiff) ==
    Cardinality({line \in block.StartLine..block.EndLine : changedLine(fileDiff, line)})

\* The loop body over the result (ast) of countStatementsInBlockUsingAST.
blockAfterCount(block, fileDiff, ast) ==
    IF ast.count >= 0
    THEN [block |-> block, path |-> "ast", changed |-> changedLines(block, fileDiff),
          total |-> ast.count,
          covered |-> IF ast.covered THEN ast.count ELSE 0,
          cache |-> ast.cache]
    ELSE proportionalEntry(block, changedLines(block, fileDiff), ast.cache)

\* One turn of the loop over the blocks of a file that has change-set lines:
\* what the block adds, by which path, and the cache afterwards.
blockFromDiff(fileName, block, fileDiff, cache) ==
    blockAfterCount(block, fileDiff,
                    countStatementsInBlockUsingAST(fileName, block, fileDiff, cache))

\* The loop over the blocks: the entries of every block, in order.
RECURSIVE blocksAfter(_, _, _, _)
blocksAfter(fileName, rest, fileDiff, first) ==
    IF rest = <<>> THEN <<first>>
    ELSE <<first>> \o blocksAfter(fileName, Tail(rest), fileDiff,
                                  blockFromDiff(fileName, Head(rest), fileDiff, first.cache))

blocksFromDiff(fileName, blocks, fileDiff, cache) ==
    IF blocks = <<>> THEN <<>>
    ELSE blocksAfter(fileName, Tail(blocks), fileDiff,
                     blockFromDiff(fileName, Head(blocks), fileDiff, cache))

RECURSIVE SumField(_, _)
SumField(entries, field) ==
    IF entries = <<>> THEN 0 ELSE Head(entries)[field] + SumField(Tail(entries), field)

fileEntry(fileName, case, found, total, covered, entries, cache) ==
    [file |-> fileName, case |-> case, found |-> found, total |-> total,
     covered |-> covered, blocks |-> entries, cache |-> cache]

blocksEntry(fileName, found, entries, cache) ==
    fileEntry(fileName, "blocks", found, SumField(entries, "total"),
              SumField(entries, "covered"), entries,
              IF entries = <<>> THEN cache ELSE entries[Len(entries)].cache)

\* A changed file without a profile in the new coverage is skipped.
\* Variant: the changed lines of a skipped file are counted as new statements.
skipped_CountsChangeSet(fileName, cache) ==
    fileEntry(fileName, "absent", <<>>,
              IF findFileDiff(DiffInfo, fileName) = {} THEN 0
              ELSE LET k == CHOOSE k \in findFileDiff(DiffInfo, fileName) : TRUE
                   IN Cardinality(DiffInfo[1][k].AddedLines \cup DiffInfo[1][k].ModifiedLines),
              0, <<>>, cache)

skipped(fileName, cache) ==
    fileEntry(fileName, "absent", <<>>, 0, 0, <<>>, cache)

\* The whole new profile of a file is counted.
wholeFile(fileName, case, found, cache) ==
    fileEntry(fileName, case, found, New[fileName].TotalStmt,
              New[fileName].CoveredStmt, <<>>, cache)

\* Variant: only a nil entry is taken for "no change-set lines".
noAddedLines_NilOnly(found) ==
    found = <<>>

\* The test for the fallback: fileDiff == nil || len(fileDiff.AddedLines) == 0.
noAddedLines(found) ==
    found = <<>> \/ Cardinality(DiffInfo[1][found[1]].AddedLines) = 0

\* Variant: the change-set entry is consulted before the old profile, so a
\* file without an old profile is evaluated block by block when it has lines.
fileFromDiff_EntryFirst(fileName, found, cache) ==
    IF fileName \notin DOMAIN New THEN skipped(fileName, cache)
    ELSE IF noAddedLines(found)
    THEN wholeFile(fileName, IF fileName \in DOMAIN Old THEN "fallback" ELSE "new",
                   found, cache)
    ELSE blocksEntry(fileName, found,
                     blocksFromDiff(fileName, New[fileName].Blocks,
                                    DiffInfo[1][found[1]], cache),
                     cache)

\* One turn of the loop of calculateNewCodeCoverageFromDiff, given the entry
\* findFileDiff returned for the file (found).
fileFromDiff(fileName, found, cache) ==
    IF fileName \notin DOMAIN New THEN skipped(fileName, cache)
    ELSE IF fileName \notin DOMAIN Old THEN wholeFile(fileName, "new", <<>>, cache)
    ELSE IF noAddedLines(found) THEN wholeFile(fileName, "fallback", found, cache)
    ELSE blocksEntry(fileName, found,
                     blocksFromDiff(fileName, New[fileName].Blocks,
                                    DiffInfo[1][found[1]], cache),
                     cache)

\* Variant: every block of the new profile is new, whatever the old profile holds.
blockFromComparison_AllNew(oldBlocks, newBlock) ==
    blockEntry(newBlock, "identity", 0, newBlock.NumStmt, <<>>)

\* One block of the block-identity comparison of calculateNewCodeCoverage.
blockFromComparison(oldBlocks, newBlock) ==
    IF blockKey(newBlock) \notin oldBlocks
    THEN blockEntry(newBlock, "identity", 0, newBlock.NumStmt, <<>>)
    ELSE blockEntry(newBlock, "none", 0, 0, <<>>)

identityEntry(fileName, entries) ==
    fileEntry(fileName, "identity", <<>>, SumField(entries, "total"),
              SumField(entries, "covered"), entries, <<>>)

\* One turn of the loop of calculateNewCodeCoverage without a change-set.
fileFromComparison(fileName) ==
    IF fileName \notin DOMAIN New THEN skipped(fileName, <<>>)
    ELSE IF fileName \notin DOMAIN Old THEN wholeFile(fileName, "new", <<>>, <<>>)
    ELSE identityEntry(fileName,
            [i \in 1..Len(New[fileName].Blocks) |->
                blockFromComparison(makeBlockMap(Old[fileName].Blocks),
                                    New[fileName].Blocks[i])])

\* ---------------------------------------------------------------- new code blocks
NewCodeBlock(fileName, block) ==
    [FileName |-> fileName, StartLine |-> block.StartLine, EndLine |-> block.EndLine,
     NumStmt |-> block.NumStmt, Covered |-> block.Count > 0, Lines |-> <<>>]

allBlocks(fileName) ==
    [i \in 1..Len(New[fileName].Blocks) |-> NewCodeBlock(fileName, New[fileName].Blocks[i])]

\* The last loop of getNewCodeBlocksFromDiff: IsLineInRange looks the file's
\* entry up again for every block.  The set of lists the loop can return.
RECURSIVE blocksInRange(_, _)
blocksInRange(fileName, blocks) ==
    IF blocks = <<>> THEN {<<>>}
    ELSE {(IF IsLineInRange(DiffInfo, found, Head(blocks).StartLine, Head(blocks).EndLine)
           THEN <<NewCodeBlock(fileName, Head(blocks))>> ELSE <<>>) \o rest :
             found \in findFileDiffResults(DiffInfo, fileName),
             rest \in blocksInRange(fileName, Tail(blocks))}

\* One turn of the loop of getNewCodeBlocksFromDiff: the lists it can append.
newCodeBlocksOfFile(fileName) ==
    IF fileName \notin DOMAIN New THEN {<<>>}
    ELSE IF fileName \notin DOMAIN Old THEN {allBlocks(fileName)}
    ELSE UNION {IF noAddedLines(found)
                THEN {allBlocks(fileName)}
                ELSE blocksInRange(fileName, New[fileName].Blocks) :
                    found \in findFileDiffResults(DiffInfo, fileName)}

RECURSIVE getNewCodeBlocksFromDiff(_)
getNewCodeBlocksFromDiff(files) ==
    IF files = <<>> THEN {<<>>}
    ELSE {first \o rest : first \in newCodeBlocksOfFile(Head(files)),
                          rest \in getNewCodeBlocksFromDiff(Tail(files))}

\* One turn of the loop of getNewCodeBlocksFromComparison.
comparisonBlocksOfFile(fileName) ==
    IF fileName \notin DOMAIN New THEN <<>>
    ELSE IF fileName \notin DOMAIN Old THEN allBlocks(fileName)
    ELSE LET oldBlocks == makeBlockMap(Old[fileName].Blocks)
         IN SelectSeq(allBlocks(fileName),
                LAMBDA b : \E i \in 1..Len(New[fileName].Blocks) :
                    /\ NewCodeBlock(fileName, New[fileName].Blocks[i]) = b
                    /\ blockKey(New[fileName].Blocks[i]) \notin oldBlocks)

RECURSIVE getNewCodeBlocksFromComparison(_)
getNewCodeBlocksFromComparison(files) ==
    IF files = <<>> THEN <<>>
    ELSE comparisonBlocksOfFile(Head(files)) \o getNewCodeBlocksFromComparison(Tail(files))

\* readSourceLines tries the candidate paths of resolveFilePath with os.Open.
\* The files of the source tree are the readable ones; each is MaxLine lines
\* long and its line n is written n.  <<>> when no candidate can be opened.
readSourceLines(fileName) ==
    IF firstParsable(resolveFilePath(fileName)) = <<>> THEN <<>>
    ELSE <<[n \in Lines |-> n]>>

\* The second loop of getNewCodeBlocks over the lines of one block: with a
\* change-set the file's entry is looked up again for every line, and a line
\* is kept when no entry is found or the entry has it as changed.  The set
\* of line lists the loop can produce.
RECURSIVE keptLines(_, _, _, _)
keptLines(fileName, sourceLines, lineNum, endLine) ==
    IF lineNum > endLine THEN {<<>>}
    ELSE {(IF /\ (found = <<>> \/ changedLine(DiffInfo[1][found[1]], lineNum))
              /\ lineNum \in DOMAIN sourceLines
           THEN <<sourceLines[lineNum]>> ELSE <<>>) \o rest :
             found \in findFileDiffResults(DiffInfo, fileName),
             rest \in keptLines(fileName, sourceLines, lineNum + 1, endLine)}

withLines(block, sourceLines) ==
    IF sourceLines = <<>> THEN {block}
    ELSE {[block EXCEPT !.Lines = kept] :
            kept \in keptLines(block.FileName, sourceLines[1],
                               block.StartLine, block.EndLine)}

\* The blocks with their source lines: the lists getNewCodeBlocks can return.
RECURSIVE populateLines(_)
populateLines(blocks) ==
    IF blocks = <<>> THEN {<<>>}
    ELSE {<<first>> \o rest :
            first \in withLines(Head(blocks), readSourceLines(Head(blocks).FileName)),
            rest \in populateLines(Tail(blocks))}

\* ---------------------------------------------------------------- operations
\* NewReport: the changed files are sorted, the cache is empty, no change-set.
\* The caller then assigns DiffInfo; the calls of calculateNewCodeCoverage follow.
NewReport(oldCov, newCov, changedFiles, diffInfo, mapper, tree, calls) ==
    /\ Old = oldCov
    /\ New = newCov
    /\ ChangedFiles = SortStrings(changedFiles)
    /\ DiffInfo = diffInfo
    /\ astMapper = mapper
    /\ astCache = <<>>
    /\ fs = tree
    /\ pc = "idle"
    /\ idx = 0
    /\ totalNew = 0
    /\ coveredNew = 0
    /\ log = <<>>
    /\ results = <<>>
    /\ callsLeft = calls
    /\ newCodeBlocks = <<>>
    /\ ChangedPackages = changedPackages(SortStrings(changedFiles))
    /\ MinCoverage = 0
    /\ report = NoReport
    /\ trimmed = <<>>
    /\ diffInput = NoDiffInput
    /\ parser = ParserIdle

\* calculateNewCodeCoverage is entered.
Call ==
    /\ pc = "idle"
    /\ callsLeft > 0
    /\ pc' = "calc"
    /\ callsLeft' = callsLeft - 1
    /\ idx' = 1
    /\ totalNew' = 0
    /\ coveredNew' = 0
    /\ log' = <<>>
    /\ UNCHANGED <<rendering, parsing>>
    /\ UNCHANGED <<inputs, astCache, results, newCodeBlocks>>

logEntry(e) ==
    [file |-> e.file, case |-> e.case, found |-> e.found, total |-> e.total,
     covered |-> e.covered,
     blocks |-> [i \in 1..Len(e.blocks) |->
                    [block |-> e.blocks[i].block, path |-> e.blocks[i].path,
                     changed |-> e.blocks[i].changed, total |-> e.blocks[i].total,
                     covered |-> e.blocks[i].covered]]]

\* The sums and the log after one changed file.
Accumulate(e) ==
    /\ totalNew' = totalNew + e.total
    /\ coveredNew' = coveredNew + e.covered
    /\ log' = Append(log, logEntry(e))

\* One changed file of the block-identity loop (DiffInfo is nil).
StepComparison ==
    /\ pc = "calc"
    /\ DiffInfo = <<>>
    /\ idx <= Len(ChangedFiles)
    /\ Accumulate(fileFromComparison(ChangedFiles[idx]))
    /\ idx' = idx + 1
    /\ UNCHANGED <<rendering, parsing>>
    /\ UNCHANGED <<inputs, astCache, pc, results, callsLeft, newCodeBlocks>>

AccumulateWithCache(e) ==
    /\ Accumulate(e)
    /\ astCache' = e.cache

\* One changed file of calculateNewCodeCoverageFromDiff.
StepDiff ==
    /\ pc = "calc"
    /\ DiffInfo # <<>>
    /\ idx <= Len(ChangedFiles)
    /\ \E found \in findFileDiffResults(DiffInfo, ChangedFiles[idx]) :
        AccumulateWithCache(fileFromDiff(ChangedFiles[idx], found, astCache))
    /\ idx' = idx + 1
    /\ UNCHANGED <<rendering, parsing>>
    /\ UNCHANGED <<inputs, pc, results, callsLeft, newCodeBlocks>>

\* calculateNewCodeCoverage returns (totalNew, coveredNew).
Return ==
    /\ pc = "calc"
    /\ idx > Len(ChangedFiles)
    /\ pc' = "idle"
    /\ results' = Append(results, <<totalNew, coveredNew>>)
    /\ UNCHANGED <<rendering, parsing>>
    /\ UNCHANGED <<inputs, astCache, idx, totalNew, coveredNew, log, callsLeft,
                   newCodeBlocks>>

\* getNewCodeBlocks: the block list of the mode, then the source lines of
\* every block.  It is called on its own after the totals, or by
\* addNewCodeDetails when the second total of Markdown is not 0.
GetNewCodeBlocks ==
    /\ pc = "idle"
    /\ callsLeft = 0
    /\ newCodeBlocks = <<>>
    /\ \/ report = NoReport /\ results # <<>>
       \/ report.summary # <<>> /\ Len(results) = 2 /\ results[2][1] # 0
    /\ \E blocks \in (IF DiffInfo # <<>> THEN getNewCodeBlocksFromDiff(ChangedFiles)
                       ELSE {getNewCodeBlocksFromComparison(ChangedFiles)}) :
         \E list \in populateLines(blocks) : newCodeBlocks' = <<list>>
    /\ UNCHANGED <<rendering, parsing>>
    /\ UNCHANGED <<inputs, astCache, pc, idx, totalNew, coveredNew, log, results,
                   callsLeft>>

Next == Call \/ StepComparison \/ StepDiff \/ Return \/ GetNewCodeBlocks

\* ---------------------------------------------------------------- inputs
Ranges == {r \in Lines \X Lines : r[1] <= r[2]}

BlockChoices ==
    {Block(r[1], 1, r[2], 1, n, c) : r \in Ranges, n \in 0..MaxStmt, c \in 0..1}

\* Blocks in source order, each starting below the end of the one before.
RECURSIVE BlockSeqs(_, _, _)
BlockSeqs(choices, minLine, k) ==
    IF k = 0 THEN {<<>>}
    ELSE {<<>>} \cup
         UNION {{<<b>> \o rest : rest \in BlockSeqs(choices, b.EndLine + 1, k - 1)} :
                   b \in {c \in choices : c.StartLine >= minLine}}

NewBlockSeqs == BlockSeqs(BlockChoices, 1, MaxBlocks) \ {<<>>}

\* The counts of the old profile's blocks do not enter the computation.
OldBlockSeqs ==
    BlockSeqs({b \in BlockChoices : b.NumStmt = 1 /\ b.Count = 1}, 1, MaxBlocks) \ {<<>>}

CoverageOf(file, blockSeqs) ==
    {<<>>} \cup {file :> ProfileOf(bs) : bs \in blockSeqs}

FileDiffs ==
    {FileDiff(a, m) : a \in SUBSET Lines, m \in SUBSET Lines}

DisjointFileDiffs == {d \in FileDiffs : d.AddedLines \cap d.ModifiedLines = {}}

\* The source tree: the file is missing or unparsable, or it is found under
\* its repository-relative path with some set of statement lines.
Trees == {<<>>} \cup {RP :> stmts : stmts \in SUBSET Lines}

Init ==
    \E oldCov \in CoverageOf(FQ, OldBlockSeqs),
       newCov \in CoverageOf(FQ, NewBlockSeqs),
       changedFiles \in {<<FQ>>, <<RP>>, <<FQ, RP>>, <<RP, FQ>>},
       diffInfo \in {<<>>, << <<>> >>} \cup {<<FQ :> d>> : d \in DisjointFileDiffs},
       tree \in Trees,
       mapper \in BOOLEAN :
        /\ mapper \/ tree = <<>>
        /\ NewReport(oldCov, newCov, changedFiles, diffInfo, mapper, tree, 1)

Spec == Init /\ [][Next]_vars

\* ---------------------------------------------------------------- estimate runs
\* One block of up to MaxEstLines lines whose first lines are changed; its
\* statement index is missing (no mapper) or has no statement line at all.
InitEst ==
    \E lines \in 1..MaxEstLines, changed \in 0..MaxEstLines,
       n \in 0..MaxEstStmt, cnt \in 0..1,
       mode \in {"comparison", "no index", "empty index"} :
        /\ changed <= lines
        /\ NewReport(FQ :> ProfileOf(<<Block(1, 1, lines, 1, 1, 1)>>),
                     FQ :> ProfileOf(<<Block(1, 1, lines, 1, n, cnt)>>),
                     <<FQ>>,
                     IF mode = "comparison" THEN <<>>
                     ELSE <<FQ :> FileDiff(1..changed, {})>>,
                     mode = "empty index",
                     IF mode = "empty index" THEN RP :> {} ELSE <<>>,
                     1)

SpecEst == InitEst /\ [][Next]_vars

\* ---------------------------------------------------------------- repeated runs
\* The change-set names the file twice, by its repository-relative path and
\* by its base name; the profiles name it by its qualified path.
\* calculateNewCodeCoverage is run MaxRuns times on the same Report.
InitMulti ==
    \E newBlocks \in NewBlockSeqs,
       diffInfo \in {<<>>} \cup {<<(RP :> FileDiff(a1, {})) @@ (BA :> FileDiff(a2, {}))>> :
                                    a1 \in SUBSET Lines, a2 \in SUBSET Lines},
       tree \in Trees,
       mapper \in BOOLEAN :
        /\ mapper \/ tree = <<>>
        /\ NewReport(FQ :> ProfileOf(<<Block(1, 1, 1, 1, 1, 1)>>),
                     FQ :> ProfileOf(newBlocks),
                     <<FQ>>, diffInfo, mapper, tree, MaxRuns)

SpecMulti == InitMulti /\ [][Next]_vars

\* ---------------------------------------------------------------- properties
\* log[i] records what the i-th changed file of the call in progress added
\* to (totalNew, coveredNew); the running sums are the sums over the log.
Sums ==
    /\ totalNew = SumField(log, "total")
    /\ coveredNew = SumField(log, "covered")

InBoth(fileName) == fileName \in DOMAIN New /\ fileName \in DOMAIN Old

\* The change-set entry the Path Reconciler returned in turn i.
Entry(i) == DiffInfo[1][log[i].found[1]]

Changed(fileDiff) == fileDiff.AddedLines \cup fileDiff.ModifiedLines

LinesOf(block) == block.StartLine..block.EndLine

\* C1 (whole-file-new): a changed file that is in the new profile and not in
\* the old one adds exactly the new profile's TotalStmt to totalNew and its
\* CoveredStmt to coveredNew, with no change-set, with a change-set that has
\* no entry for the file, and with a change-set that has any entry for it.
C1_WholeFileNew ==
    /\ Sums
    /\ \A i \in DOMAIN log :
        (log[i].file \in DOMAIN New /\ log[i].file \notin DOMAIN Old)
        => /\ log[i].total = New[log[i].file].TotalStmt
           /\ log[i].covered = New[log[i].file].CoveredStmt

\* A new file counted whole although the change-set has an entry for it whose
\* added lines miss some statements of the profile.
C1_Witness ==
    \E i \in DOMAIN log :
        /\ log[i].file \in DOMAIN New /\ log[i].file \notin DOMAIN Old
        /\ DiffInfo # <<>>
        /\ \E k \in findFileDiff(DiffInfo, log[i].file) :
              /\ DiffInfo[1][k].AddedLines # {}
              /\ \E j \in DOMAIN New[log[i].file].Blocks :
                    /\ New[log[i].file].Blocks[j].NumStmt > 0
                    /\ LinesOf(New[log[i].file].Blocks[j]) \cap Changed(DiffInfo[1][k]) = {}
        /\ log[i].total > 0
        /\ log[i].covered > 0

InOldProfile(fileName, b) ==
    \E o \in DOMAIN Old[fileName].Blocks :
        /\ Old[fileName].Blocks[o].StartLine = b.StartLine
        /\ Old[fileName].Blocks[o].StartCol = b.StartCol
        /\ Old[fileName].Blocks[o].EndLine = b.EndLine
        /\ Old[fileName].Blocks[o].EndCol = b.EndCol

NoChangedLineInBlocks(fileName, fileDiff) ==
    \A j \in DOMAIN New[fileName].Blocks :
        LinesOf(New[fileName].Blocks[j]) \cap Changed(fileDiff) = {}

C5_ModifiedLinesAreChanged ==
    \A i \in DOMAIN log :
        ( /\ DiffInfo # <<>>
          /\ InBoth(log[i].file)
          /\ log[i].found # <<>>
          /\ Changed(Entry(i)) # {} )
        => /\ log[i].case = "blocks"
           /\ log[i].total = SumField(log[i].blocks, "total")
           /\ log[i].covered = SumField(log[i].blocks, "covered")

\* The statement lines found for the file: <<>> when no index can be had.
StatementIndex(fileName) ==
    IF astMapper /\ firstParsable(resolveFilePath(fileName)) # <<>>
    THEN <<fs[firstParsable(resolveFilePath(fileName))[1]]>>
    ELSE <<>>

\* k: the lines of the block that are changed and start a statement.
ChangedStatementLines(fileName, block, fileDiff) ==
    IF StatementIndex(fileName) = <<>> THEN {}
    ELSE LinesOf(block) \cap Changed(fileDiff) \cap StatementIndex(fileName)[1]

\* C6 (statement-accurate path): in a file evaluated block by block whose
\* statement index is available, a block with k >= 1 lines that are both
\* changed and statement starts adds exactly k to totalNew, and k to
\* coveredNew if and only if its Count > 0, whatever its NumStmt.
C6_StatementAccurate ==
    /\ Sums
    /\ \A i \in DOMAIN log :
        log[i].case = "blocks" =>
        /\ log[i].total = SumField(log[i].blocks, "total")
        /\ log[i].covered = SumField(log[i].blocks, "covered")
        /\ Len(log[i].blocks) = Len(New[log[i].file].Blocks)
        /\ \A j \in DOMAIN log[i].blocks :
            LET b == log[i].blocks[j]
                k == Cardinality(ChangedStatementLines(log[i].file, b.block, Entry(i)))
            IN /\ b.block = New[log[i].file].Blocks[j]
               /\ k >= 1 => /\ b.path = "ast"
                            /\ b.total = k
                            /\ b.covered = IF b.block.Count > 0 THEN k ELSE 0

\* A covered block with more changed statement lines than NumStmt.
C6_Witness ==
    \E i \in DOMAIN log :
        /\ log[i].case = "blocks"
        /\ \E j \in DOMAIN log[i].blocks :
            /\ Cardinality(ChangedStatementLines(log[i].file, log[i].blocks[j].block,
                                                 Entry(i))) = 2
            /\ log[i].blocks[j].block.NumStmt < 2
            /\ log[i].blocks[j].block.Count > 0
            /\ log[i].blocks[j].total = 2
            /\ log[i].blocks[j].covered = 2

\* max(1, floor(n * c / lines)), in integers.
FloorAtLeastOne(n, c, lines) ==
    IF (n * c) \div lines >= 1 THEN (n * c) \div lines ELSE 1

\* C7 as stated (proportional fallback): in a file evaluated block by block,
\* a block whose statement index is unavailable or has no changed statement
\* line, with c changed lines among its EndLine - StartLine + 1 lines, adds
\* nothing if c = 0 and otherwise max(1, floor(NumStmt * c / lines)) to
\* totalNew, and the same to coveredNew if and only if its Count > 0.
C7_ProportionalFloor ==
    \A i \in DOMAIN log :
        log[i].case = "blocks" =>
        \A j \in DOMAIN log[i].blocks :
            LET b == log[i].blocks[j]
                c == Cardinality(LinesOf(b.block) \cap Changed(Entry(i)))
                lines == b.block.EndLine - b.block.StartLine + 1
            IN ChangedStatementLines(log[i].file, b.block, Entry(i)) = {} =>
               /\ b.total = IF c = 0 THEN 0
                            ELSE FloorAtLeastOne(b.block.NumStmt, c, lines)
               /\ b.covered = IF b.block.Count > 0 THEN b.total ELSE 0

\* C8 as stated (idempotence): the calls of calculateNewCodeCoverage on one
\* Report, with the same coverage, changed files and change-set, all return
\* the same (totalNew, coveredNew), also when several keys of the change-set
\* suffix-match a file and when an earlier call filled the statement cache.
C8_Idempotent ==
    \A i \in DOMAIN results : \A j \in DOMAIN results : results[i] = results[j]

\* C9 (legacy block-identity mode): a file is compared block by block on the
\* keys exactly when no change-set is supplied and it is in both profiles;
\* then a block of the new profile adds its NumStmt to totalNew, and to
\* coveredNew if and only if its Count > 0, if and only if its key
\* (StartLine, StartCol, EndLine, EndCol) is the key of no old block; the
\* other blocks add nothing.
C9_LegacyBlockIdentity ==
    /\ Sums
    /\ \A i \in DOMAIN log :
        /\ log[i].case = "identity" <=> (DiffInfo = <<>> /\ InBoth(log[i].file))
        /\ log[i].case = "identity" =>
            /\ log[i].total = SumField(log[i].blocks, "total")
            /\ log[i].covered = SumField(log[i].blocks, "covered")
            /\ Len(log[i].blocks) = Len(New[log[i].file].Blocks)
            /\ \A j \in DOMAIN log[i].blocks :
                LET b == log[i].blocks[j]
                    isNew == ~InOldProfile(log[i].file, b.block)
                IN /\ b.block = New[log[i].file].Blocks[j]
                   /\ b.total = IF isNew THEN b.block.NumStmt ELSE 0
                   /\ b.covered = IF isNew /\ b.block.Count > 0
                                  THEN b.block.NumStmt ELSE 0

\* A covered block whose key is new is counted in full, next to a block with
\* an old key that adds nothing.
C9_Witness ==
    \E i \in DOMAIN log :
        /\ log[i].case = "identity"
        /\ \E j \in DOMAIN log[i].blocks :
            /\ ~InOldProfile(log[i].file, log[i].blocks[j].block)
            /\ log[i].blocks[j].total = log[i].blocks[j].block.NumStmt
            /\ log[i].blocks[j].covered > 0
        /\ \E j \in DOMAIN log[i].blocks :
            /\ InOldProfile(log[i].file, log[i].blocks[j].block)
            /\ log[i].blocks[j].block.NumStmt > 0
            /\ log[i].blocks[j].total = 0

\* C10: a changed file that is not in the new profile adds nothing to
\* totalNew and coveredNew and gives no new-code block, with and without a
\* change-set, also when the change-set has changed lines for it.
C10_AbsentFromNewProfile ==
    /\ Sums
    /\ \A i \in DOMAIN log :
        log[i].file \notin DOMAIN New => log[i].total = 0 /\ log[i].covered = 0
    /\ newCodeBlocks # <<>> =>
        \A j \in DOMAIN newCodeBlocks[1] : newCodeBlocks[1][j].FileName \in DOMAIN New

\* A changed file outside the new profile for which the change-set has an
\* added line, after the totals and the block list were computed from
\* another changed file.
C10_Witness ==
    /\ DiffInfo # <<>>
    /\ results # <<>>
    /\ newCodeBlocks # <<>>
    /\ Len(newCodeBlocks[1]) > 0
    /\ \E i \in DOMAIN log :
        /\ log[i].file \notin DOMAIN New
        /\ \E k \in findFileDiff(DiffInfo, log[i].file) : DiffInfo[1][k].AddedLines # {}
        /\ totalNew > 0

\* ---------------------------------------------------------------- path runs
\* One changed file, in both profiles, looked up in a change-set whose keys
\* are any of the four identifiers.
PathNames == {FQ, RP, BA, MA}

InitPaths ==
    \E fileName \in PathNames,
       diffInfo \in {<<>>} \cup {<<[k \in keys |-> FileDiff({1}, {})]>> :
                                    keys \in SUBSET PathNames} :
        NewReport(fileName :> ProfileOf(<<Block(1, 1, 1, 1, 1, 1)>>),
                  fileName :> ProfileOf(<<Block(1, 1, 2, 1, 1, 1)>>),
                  <<fileName>>, diffInfo, FALSE, <<>>, 1)

SpecPaths == InitPaths /\ [][Next]_vars

\* C11 (Path Reconciler priority): findFileDiff returns the entry under the
\* exact query key when there is one, also when other keys suffix-match;
\* otherwise an entry whose key is a suffix of the query; otherwise an entry
\* of whose key the query is a suffix; and nil when no key matches or the
\* change-set is nil.
C11_ReconcilerPriority ==
    /\ DiffInfo = <<>> =>
         \A i \in DOMAIN ChangedFiles :
            findFileDiffResults(DiffInfo, ChangedFiles[i]) = {<<>>}
    /\ \A i \in DOMAIN log :
        (DiffInfo # <<>> /\ InBoth(log[i].file)) =>
        LET q == log[i].file
            keys == DOMAIN DiffInfo[1]
        IN IF q \in keys THEN log[i].found = <<q>>
           ELSE IF \E k \in keys : HasSuffix(q, k)
           THEN log[i].found # <<>> /\ HasSuffix(q, log[i].found[1])
           ELSE IF \E k \in keys : HasSuffix(k, q)
           THEN log[i].found # <<>> /\ HasSuffix(log[i].found[1], q)
           ELSE log[i].found = <<>>

\* The exact key is returned although a shorter key is a suffix of the query
\* and a longer key ends in it.
C11_Witness ==
    \E i \in DOMAIN log :
        /\ DiffInfo # <<>>
        /\ log[i].file = RP
        /\ {FQ, RP, BA} \subseteq DOMAIN DiffInfo[1]
        /\ log[i].found = <<RP>>

\* ---------------------------------------------------------------- diff text
\* A line of a change-set file is a sequence of characters.
DigitChars == <<"0", "1", "2", "3", "4", "5", "6", "7", "8", "9">>

IsDigit(ch) == \E i \in DOMAIN DigitChars : DigitChars[i] = ch

DigitValue(ch) == (CHOOSE i \in DOMAIN DigitChars : DigitChars[i] = ch) - 1

\* strconv.Itoa(n), n >= 0
RECURSIVE Itoa(_)
Itoa(n) ==
    IF n < 10 THEN <<DigitChars[n + 1]>>
    ELSE Append(Itoa(n \div 10), DigitChars[(n % 10) + 1])

RECURSIVE DigitsValue(_, _)
DigitsValue(s, acc) ==
    IF s = <<>> THEN acc ELSE DigitsValue(Tail(s), 10 * acc + DigitValue(Head(s)))

\* strconv.Atoi(s): an optional sign and at least one decimal digit; err is
\* TRUE for anything else, and the value is then 0.
AtoiUnsigned(s) ==
    IF s # <<>> /\ \A i \in DOMAIN s : IsDigit(s[i])
    THEN [value |-> DigitsValue(s, 0), err |-> FALSE]
    ELSE [value |-> 0, err |-> TRUE]

Atoi(s) ==
    IF s # <<>> /\ s[1] = "+" THEN AtoiUnsigned(Tail(s))
    ELSE IF s # <<>> /\ s[1] = "-"
         THEN [value |-> 0 - AtoiUnsigned(Tail(s)).value, err |-> AtoiUnsigned(Tail(s)).err]
    ELSE AtoiUnsigned(s)

\* strings.Split(s, sep) for a one-character separator.
RECURSIVE SplitOnAcc(_, _, _)
SplitOnAcc(s, sep, cur) ==
    IF s = <<>> THEN <<cur>>
    ELSE IF Head(s) = sep THEN <<cur>> \o SplitOnAcc(Tail(s), sep, <<>>)
    ELSE SplitOnAcc(Tail(s), sep, Append(cur, Head(s)))

SplitOn(s, sep) == SplitOnAcc(s, sep, <<>>)

\* ---------------------------------------------------------------- unified diff
\* ParseUnifiedDiff's loop body for one line, on the locals
\* st = [currentFile, currentLine, Files]: currentFile is <<>> (nil) or
\* <<name>>, the key under which the current FileDiff is stored in Files.
NewFileHeader == <<"+", "+", "+", " ", "b", "/">>
HunkMarker == <<"@", "@">>
ThreePlus == <<"+", "+", "+">>

\* Variant: the start is assigned whatever Atoi returned, error or not.
hunkStart_IgnoresError(line, currentLine) ==
    LET parts == SplitOn(line, " ")
    IN IF Len(parts) >= 3
       THEN Atoi(SplitOn(TrimPrefix(parts[3], <<"+">>), ",")[1]).value
       ELSE currentLine

\* The counter after a line starting with "@@": the integer before the comma
\* of the third space-separated field, its "+" removed; the old counter when
\* there are fewer fields or Atoi fails.
hunkStart(line, currentLine) ==
    LET parts == SplitOn(line, " ")
    IN IF Len(parts) >= 3
       THEN LET start == Atoi(SplitOn(TrimPrefix(parts[3], <<"+">>), ",")[1])
            IN IF start.err THEN currentLine ELSE start.value
       ELSE currentLine

addLine(st) ==
    LET name == st.currentFile[1]
        fileDiff == st.Files[name]
    IN [st EXCEPT !.Files = (name :> FileDiff(fileDiff.AddedLines \cup {st.currentLine},
                                              fileDiff.ModifiedLines)) @@ st.Files,
                  !.currentLine = st.currentLine + 1]

scanLine(st, line) ==
    IF HasPrefix(line, NewFileHeader)
    THEN LET fileName == TrimPrefix(line, NewFileHeader)
         IN [st EXCEPT !.currentFile = <<fileName>>,
                       !.Files = (fileName :> FileDiff({}, {})) @@ st.Files]
    ELSE IF HasPrefix(line, HunkMarker)
    THEN [st EXCEPT !.currentLine = hunkStart(line, st.currentLine)]
    ELSE IF st.currentFile = <<>> THEN st
    ELSE IF HasPrefix(line, <<"+">>) /\ ~HasPrefix(line, ThreePlus) THEN addLine(st)
    ELSE IF HasPrefix(line, <<" ">>) THEN [st EXCEPT !.currentLine = st.currentLine + 1]
    ELSE st

\* A return of a parser: the change-set (<<>> is nil) and whether the error
\* is non-nil.
Returned(info, err) == <<[info |-> info, err |-> err]>>

\* ParseUnifiedDiff up to the loop: the empty file name, os.Open.
ParseUnifiedDiff ==
    /\ diffInput.format = "unified"
    /\ parser.pc = "idle"
    /\ parser' =
         IF diffInput.status = "noname"
         THEN [parser EXCEPT !.pc = "done", !.ret = Returned(<<>>, FALSE)]
         ELSE IF diffInput.status = "missing"
         THEN [parser EXCEPT !.pc = "done", !.ret = Returned(<<>>, TRUE)]
         ELSE [parser EXCEPT !.pc = "scan", !.pos = 1]
    /\ UNCHANGED <<inputs, astCache, pc, idx, totalNew, coveredNew, log, results,
                   callsLeft, newCodeBlocks, rendering, diffInput>>

\* scanner.Scan() delivers the next line unless the lines are used up or the
\* read fails at this position.
ScanStops ==
    \/ parser.pos > Len(diffInput.lines)
    \/ diffInput.status = "unreadable" /\ parser.pos = diffInput.failAt

ScanLine ==
    /\ parser.pc = "scan"
    /\ ~ScanStops
    /\ parser' = [scanLine(parser, diffInput.lines[parser.pos])
                    EXCEPT !.pos = parser.pos + 1]
    /\ UNCHANGED <<inputs, astCache, pc, idx, totalNew, coveredNew, log, results,
                   callsLeft, newCodeBlocks, rendering, diffInput>>

\* return diffInfo, scanner.Err()
ReturnDiff ==
    /\ parser.pc = "scan"
    /\ ScanStops
    /\ parser' = [parser EXCEPT !.pc = "done",
                    !.ret = Returned(<<parser.Files>>, diffInput.status = "unreadable")]
    /\ UNCHANGED <<inputs, astCache, pc, idx, totalNew, coveredNew, log, results,
                   callsLeft, newCodeBlocks, rendering, diffInput>>

\* ---------------------------------------------------------------- JSON diff
RECURSIVE ToSet(_)
ToSet(list) == IF list = <<>> THEN {} ELSE {Head(list)} \cup ToSet(Tail(list))

\* The loop of ParseDiffInfo over the decoded files: a later entry of the
\* same name replaces the earlier one.
RECURSIVE filesOfJSON(_, _)
filesOfJSON(data, files) ==
    IF data = <<>> THEN files
    ELSE filesOfJSON(Tail(data),
            (Head(data).filename :> FileDiff(ToSet(Head(data).added_lines),
                                             ToSet(Head(data).modified_lines)))
            @@ files)

\* ParseDiffInfo: the empty file name, os.ReadFile, json.Unmarshal, the loop.
ParseDiffInfo ==
    /\ diffInput.format = "json"
    /\ parser.pc = "idle"
    /\ parser' =
         IF diffInput.status = "noname"
         THEN [parser EXCEPT !.pc = "done", !.ret = Returned(<<>>, FALSE)]
         ELSE IF diffInput.status \in {"missing", "unreadable", "undecodable"}
         THEN [parser EXCEPT !.pc = "done", !.ret = Returned(<<>>, TRUE)]
         ELSE [parser EXCEPT !.pc = "done",
                  !.ret = Returned(<<filesOfJSON(diffInput.data, <<>>)>>, FALSE)]
    /\ UNCHANGED <<inputs, astCache, pc, idx, totalNew, coveredNew, log, results,
                   callsLeft, newCodeBlocks, rendering, diffInput>>

NextParse == ParseUnifiedDiff \/ ScanLine \/ ReturnDiff \/ ParseDiffInfo

\* ---------------------------------------------------------------- diff files
MaxDiffItems == 4

\* A unified diff as the list of its items: a file header, a hunk header with
\* the start line of the new file, an added, context or removed line with its
\* content, or a raw line.
FileItem(name) == [kind |-> "file", name |-> name, start |-> 0, text |-> <<>>]
HunkItem(start) == [kind |-> "hunk", name |-> <<>>, start |-> start, text |-> <<>>]
LineItem(kind, text) == [kind |-> kind, name |-> <<>>, start |-> 0, text |-> text]

IsBody(item) == item.kind \in {"added", "context", "removed"}

\* The number of the items of the given kinds in the hunk body starting at i.
RECURSIVE BodyCount(_, _, _)
BodyCount(items, i, kinds) ==
    IF i > Len(items) \/ ~IsBody(items[i]) THEN 0
    ELSE (IF items[i].kind \in kinds THEN 1 ELSE 0) + BodyCount(items, i + 1, kinds)

\* "start,count", the count left out when it is 1.
RangeText(start, count) ==
    IF count = 1 THEN Itoa(start) ELSE Itoa(start) \o <<",">> \o Itoa(count)

\* The text lines of item i as diff writes them.
RenderItem(items, i) ==
    LET item == items[i]
    IN CASE item.kind = "file" ->
              << <<"-", "-", "-", " ", "a", "/">> \o item.name,
                 <<"+", "+", "+", " ", "b", "/">> \o item.name >>
         [] item.kind = "hunk" ->
              << <<"@", "@", " ", "-">>
                 \o RangeText(1, BodyCount(items, i + 1, {"removed", "context"}))
                 \o <<" ", "+">>
                 \o RangeText(item.start, BodyCount(items, i + 1, {"added", "context"}))
                 \o <<" ", "@", "@">> >>
         [] item.kind = "added" -> << <<"+">> \o item.text >>
         [] item.kind = "context" -> << <<" ">> \o item.text >>
         [] item.kind = "removed" -> << <<"-">> \o item.text >>
         [] OTHER -> <<item.text>>

RECURSIVE RenderFrom(_, _)
RenderFrom(items, i) ==
    IF i > Len(items) THEN <<>> ELSE RenderItem(items, i) \o RenderFrom(items, i + 1)

Render(items) == RenderFrom(items, 1)

DiffItems ==
    {FileItem(BA), FileItem(RP), HunkItem(1), HunkItem(2),
     LineItem("raw", <<"@", "@">>),
     LineItem("raw", <<"@", "@", " ", "-", "1", " ", "+", "x", " ", "@", "@">>),
     LineItem("added", <<"x">>), LineItem("added", <<"+", "+", "x">>),
     LineItem("context", <<"x">>), LineItem("removed", <<"x">>)}

\* A file that cannot be opened has no content to speak of; a read of an open
\* file can fail before any line or after the lines before the last.
UnifiedFile(status, failAt, items) ==
    [format |-> "unified", status |-> status, failAt |-> failAt, items |-> items,
     lines |-> Render(items), data |-> <<>>]

UnifiedInput ==
    \/ \E status \in {"noname", "missing"} : diffInput = UnifiedFile(status, 0, <<>>)
    \/ \E n \in 0..MaxDiffItems : \E items \in [1..n -> DiffItems] :
          \/ diffInput = UnifiedFile("ok", 0, items)
          \/ \E failAt \in {1, Len(Render(items))} :
                failAt > 0 /\ diffInput = UnifiedFile("unreadable", failAt, items)

\* The decoded entries of a JSON change-set file.
JSONLineLists == {<<>>, <<1>>, <<2, 1>>, <<1, 1>>}

JSONEntries ==
    [filename : {BA, RP}, added_lines : JSONLineLists, modified_lines : {<<>>, <<2>>}]

JSONFile(status, data) ==
    [format |-> "json", status |-> status, failAt |-> 0, items |-> <<>>,
     lines |-> <<>>, data |-> data]

JSONInput ==
    \/ \E status \in {"noname", "missing", "unreadable", "undecodable"} :
          diffInput = JSONFile(status, <<>>)
    \/ \E n \in 0..2 : \E data \in [1..n -> JSONEntries] :
          diffInput = JSONFile("ok", data)

\* The parsers run before any report exists.
InitParse ==
    /\ UnifiedInput \/ JSONInput
    /\ parser = ParserIdle
    /\ Old = <<>>
    /\ New = <<>>
    /\ ChangedFiles = <<>>
    /\ DiffInfo = <<>>
    /\ astMapper = FALSE
    /\ astCache = <<>>
    /\ fs = <<>>
    /\ pc = "idle"
    /\ idx = 0
    /\ totalNew = 0
    /\ coveredNew = 0
    /\ log = <<>>
    /\ results = <<>>
    /\ callsLeft = 0
    /\ newCodeBlocks = <<>>
    /\ ChangedPackages = <<>>
    /\ MinCoverage = 0
    /\ report = NoReport
    /\ trimmed = <<>>

SpecParse == InitParse /\ [][NextParse]_vars

\* ---------------------------------------------------------------- diff claims
\* What a well-formed diff says was added: per file of the diff, the new-file
\* line numbers of its added lines, counted from each hunk's start over the
\* added and context lines.
RECURSIVE AddedOfItems(_, _, _, _)
AddedOfItems(items, file, line, acc) ==
    IF items = <<>> THEN acc
    ELSE LET item == Head(items)
         IN CASE item.kind = "file" ->
                   AddedOfItems(Tail(items), item.name, line, (item.name :> {}) @@ acc)
              [] item.kind = "hunk" -> AddedOfItems(Tail(items), file, item.start, acc)
              [] item.kind = "added" ->
                   AddedOfItems(Tail(items), file, line + 1,
                                (file :> (acc[file] \cup {line})) @@ acc)
              [] item.kind = "context" -> AddedOfItems(Tail(items), file, line + 1, acc)
              [] OTHER -> AddedOfItems(Tail(items), file, line, acc)

\* The line the new file has reached after the items before position i.
RECURSIVE LineReached(_, _)
LineReached(items, i) ==
    IF i = 0 \/ items[i].kind = "file" THEN 0
    ELSE IF items[i].kind = "hunk" THEN items[i].start
    ELSE LineReached(items, i - 1) + (IF items[i].kind = "removed" THEN 0 ELSE 1)

\* Well-formed: file sections of distinct files, each a list of hunks in
\* ascending order, every hunk a correct header and its body.
WellFormed(items) ==
    /\ items # <<>>
    /\ items[1].kind = "file"
    /\ \A i \in DOMAIN items :
        /\ items[i].kind # "raw"
        /\ IsBody(items[i]) => items[i - 1].kind # "file"
        /\ items[i].kind = "hunk" =>
             /\ items[i].start >= LineReached(items, i - 1)
             /\ i < Len(items) /\ IsBody(items[i + 1])
        /\ \A j \in DOMAIN items :
             (items[i].kind = "file" /\ items[j].kind = "file" /\ i # j)
                => items[i].name # items[j].name

ParsedUnified(status) ==
    /\ diffInput.format = "unified"
    /\ diffInput.status = status
    /\ parser.pc = "done"

AddedLinesOf(files) == [name \in DOMAIN files |-> files[name].AddedLines]

\* C12 (unified-diff line numbering): for a well-formed diff the parsed
\* change-set holds, for each file of the diff, exactly the new-file line
\* numbers of the file's added lines.
C12_AddedLinesExact ==
    (ParsedUnified("ok") /\ WellFormed(diffInput.items)) =>
        AddedLinesOf(parser.ret[1].info[1])
            = AddedOfItems(diffInput.items, <<>>, 0, <<>>)

\* A hunk header the parser cannot use: fewer than three fields between
\* spaces, or a new-file start that is not a decimal number.
IsNumber(text) == text # <<>> /\ \A i \in DOMAIN text : IsDigit(text[i])

Malformed(line) ==
    /\ HasPrefix(line, HunkMarker)
    /\ \/ Len(SplitOn(line, " ")) < 3
       \/ ~IsNumber(SplitOn(TrimPrefix(SplitOn(line, " ")[3], <<"+">>), ",")[1])

RECURSIVE WithoutMalformed(_)
WithoutMalformed(lines) ==
    IF lines = <<>> THEN <<>>
    ELSE IF Malformed(Head(lines)) THEN WithoutMalformed(Tail(lines))
    ELSE <<Head(lines)>> \o WithoutMalformed(Tail(lines))

\* The locals of the loop after all the given lines.
RECURSIVE scanAll(_, _)
scanAll(st, lines) ==
    IF lines = <<>> THEN st ELSE scanAll(scanLine(st, Head(lines)), Tail(lines))

\* C13 (malformed hunk header): a readable diff is parsed to its last line
\* without an error whatever its hunk headers look like; the step over a
\* malformed header changes nothing but the position, so the counter keeps the
\* value it had; and the change-set returned is the one of the same diff with
\* the malformed headers taken out.
C13_MalformedHunkSkipped ==
    /\ [](ParsedUnified("ok") =>
            /\ ~parser.ret[1].err
            /\ parser.pos = Len(diffInput.lines) + 1
            /\ parser.ret[1].info
                 = <<scanAll(ParserIdle, WithoutMalformed(diffInput.lines)).Files>>)
    /\ [][(/\ parser.pc = "scan"
           /\ parser'.pc = "scan"
           /\ Malformed(diffInput.lines[parser.pos]))
          => parser' = [parser EXCEPT !.pos = parser.pos + 1]]_vars

\* A header with a start that is no number comes after a hunk starting at
\* line 2 and before an added line, which is recorded as line 2.
C13_Witness ==
    /\ ParsedUnified("ok")
    /\ Len(diffInput.items) = 4
    /\ diffInput.items[1] = FileItem(BA)
    /\ diffInput.items[2] = HunkItem(2)
    /\ diffInput.items[3].kind = "raw"
    /\ Len(SplitOn(diffInput.items[3].text, " ")) >= 3
    /\ Malformed(diffInput.items[3].text)
    /\ diffInput.items[4].kind = "added"
    /\ ~parser.ret[1].err
    /\ parser.ret[1].info[1][BA].AddedLines = {2}

\* C14 (parser outcomes): with an empty file name a parser returns no
\* change-set and no error; when the file cannot be opened, read to its end or
\* decoded it returns an error and no change-set; otherwise a change-set and
\* no error.
C14_ParserOutcomes ==
    parser.pc = "done" =>
        LET ret == parser.ret[1]
        IN CASE diffInput.status = "noname" -> ret.info = <<>> /\ ~ret.err
             [] diffInput.status \in {"missing", "unreadable", "undecodable"} ->
                  ret.info = <<>> /\ ret.err
             [] OTHER -> ret.info # <<>> /\ ~ret.err

\* ---------------------------------------------------------------- index runs
\* Two changed files, both in both profiles and in the change-set: "ma",
\* which comes first, and "r/p/a".  The source tree holds "ma", "p/a", both
\* or neither, each with any set of statement lines.  Without a change-set
\* the index is not consulted.
IndexTrees ==
    {[path \in paths |-> stmts[path]] :
        paths \in SUBSET {MA, RP}, stmts \in [{MA, RP} -> SUBSET Lines]}

InitIndex ==
    \E blocks \in NewBlockSeqs, added \in SUBSET Lines, tree \in IndexTrees :
        NewReport((MA :> ProfileOf(<<Block(1, 1, 1, 1, 1, 1)>>))
                    @@ (FQ :> ProfileOf(<<Block(1, 1, 1, 1, 1, 1)>>)),
                  (MA :> ProfileOf(blocks))
                    @@ (FQ :> ProfileOf(<<Block(1, 1, 2, 1, 2, 1)>>)),
                  <<FQ, MA>>,
                  IF added = {} THEN <<>>
                  ELSE <<(MA :> FileDiff(added, {})) @@ (FQ :> FileDiff({1}, {}))>>,
                  TRUE, tree, 1)

SpecIndex == InitIndex /\ [][Next]_vars

\* The paths under which the source of a file is looked for: its name, the
\* name without its leading segments, and the name under testdata.
Candidates(fileName) ==
    {fileName, Testdata \o <<"/">> \o fileName}
    \cup {SubSeq(fileName, k + 1, Len(fileName)) :
            k \in {i \in DOMAIN fileName : fileName[i] = "/"}}

Unparsable(fileName) == Candidates(fileName) \cap DOMAIN fs = {}

\* C20 (statement-parse failure is local): when the source of a file parses
\* under none of its candidate paths, every block of the file is evaluated by
\* the proportional estimate over its changed lines and nothing is cached for
\* the file; the loop goes on to the next changed file, and the call returns
\* after the last one.
C20_ParseFailureIsLocal ==
    /\ \A i \in DOMAIN log :
        (log[i].case = "blocks" /\ Unparsable(log[i].file)) =>
        /\ log[i].file \notin DOMAIN astCache
        /\ Len(log[i].blocks) = Len(New[log[i].file].Blocks)
        /\ \A j \in DOMAIN log[i].blocks :
            LET b == log[i].blocks[j]
                c == Cardinality(LinesOf(b.block) \cap Changed(Entry(i)))
            IN /\ b.path = IF c > 0 THEN "proportional" ELSE "none"
               /\ b.total = IF c > 0 THEN estimatedStmts(b.block, c) ELSE 0
    /\ \A i \in DOMAIN log : log[i].file = ChangedFiles[i]
    /\ pc = "calc" => Len(log) = idx - 1
    /\ (pc = "idle" /\ results # <<>>) =>
          /\ Len(log) = Len(ChangedFiles)
          /\ results[Len(results)] = <<SumField(log, "total"), SumField(log, "covered")>>

\* The call has returned; the first file could not be parsed and a block of
\* it was estimated; the file after it was counted by its statement index.
C20_Witness ==
    /\ pc = "idle"
    /\ results # <<>>
    /\ Len(log) = 2
    /\ Unparsable(log[1].file)
    /\ \E j \in DOMAIN log[1].blocks :
          log[1].blocks[j].path = "proportional" /\ log[1].blocks[j].total > 0
    /\ \E j \in DOMAIN log[2].blocks : log[2].blocks[j].path = "ast"

\* ---------------------------------------------------------------- float64, signed
(***************************************************************************)
(* The remaining float64 operations of the report: the difference of two   *)
(* percentages, its comparison with whole numbers, its division by 10 and  *)
(* its formatting with two decimals.  A natural number is the list of its  *)
(* digits in base 2^13 without leading zeros; a signed float is            *)
(* [neg, sig, exp] with the value (-1)^neg * sig * 2^exp.                   *)
(***************************************************************************)
IntToDigits(n) == Normalize(<<n>>)

Zeros(n) == [i \in 1..n |-> 0]

BigBitLen(a) == IF a = <<>> THEN 0 ELSE (Len(a) - 1) * DigitBits + BitLen(a[1])

\* -1, 0 or 1 as a < b, a = b or a > b.
RECURSIVE DigitsCmp(_, _)
DigitsCmp(a, b) ==
    IF a = <<>> THEN 0
    ELSE IF a[1] < b[1] THEN -1
    ELSE IF a[1] > b[1] THEN 1
    ELSE DigitsCmp(Tail(a), Tail(b))

BigCmp(a, b) ==
    IF Len(a) < Len(b) THEN -1
    ELSE IF Len(a) > Len(b) THEN 1
    ELSE DigitsCmp(a, b)

\* a - b - borrow for digit lists of one length, a >= b + borrow.
RECURSIVE DigitsSub(_, _, _)
DigitsSub(a, b, borrow) ==
    IF a = <<>> THEN <<>>
    ELSE LET v == a[Len(a)] - b[Len(b)] - borrow
         IN Append(DigitsSub(SubSeq(a, 1, Len(a) - 1), SubSeq(b, 1, Len(b) - 1),
                             IF v < 0 THEN 1 ELSE 0),
                   IF v < 0 THEN v + DigitBase ELSE v)

BigSub(a, b) == Normalize(DigitsSub(a, Zeros(Len(a) - Len(b)) \o b, 0))

\* a * 2^k
BigShl(a, k) ==
    IF a = <<>> THEN <<>>
    ELSE Normalize(MulDigits(a, Pow2(k % DigitBits), 0)) \o Zeros(k \div DigitBits)

\* a divided by n < 2^13: the quotient's digits (leading zeros kept) after
\* the remainder r carried in, and the remainder.
RECURSIVE DivSmall(_, _, _)
DivSmall(a, n, r) ==
    IF a = <<>> THEN [quot |-> <<>>, rem |-> r]
    ELSE LET v == r * DigitBase + a[1]
             rest == DivSmall(Tail(a), n, v % n)
         IN [quot |-> <<v \div n>> \o rest.quot, rem |-> rest.rem]

BigDivSmall(a, n) ==
    [quot |-> Normalize(DivSmall(a, n, 0).quot), rem |-> DivSmall(a, n, 0).rem]

\* Whether a / 2^k rounds up: the bits dropped (high: those of the digits
\* kept, low: the digits dropped) are more than half, or half with something
\* nonzero below them (sticky), or exactly half and the quotient is odd.
RoundsUp(quot, high, low, k, sticky) ==
    LET twice == BigCmp(BigShl(Normalize(<<high>> \o low), 1), BigShl(<<1>>, k))
    IN \/ twice > 0
       \/ twice = 0 /\ (sticky \/ (quot # <<>> /\ quot[Len(quot)] % 2 = 1))

BigShrSplit(kept, low, k, sticky) ==
    LET d == BigDivSmall(kept, Pow2(k % DigitBits))
    IN AddCarry(d.quot, IF RoundsUp(d.quot, d.rem, low, k, sticky) THEN 1 ELSE 0)

\* a / 2^k rounded to nearest, ties to even.
BigShrRound(a, k, sticky) ==
    IF k \div DigitBits >= Len(a) THEN BigShrSplit(<<>>, a, k, sticky)
    ELSE BigShrSplit(SubSeq(a, 1, Len(a) - (k \div DigitBits)),
                     SubSeq(a, Len(a) - (k \div DigitBits) + 1, Len(a)), k, sticky)

SigBits == 53

\* a * 2^exp (and something below it when sticky) as a float of 53 bits.
RoundToFloat(a, exp, sticky) ==
    IF BigBitLen(a) <= SigBits THEN [sig |-> a, exp |-> exp]
    ELSE [sig |-> BigShrRound(a, BigBitLen(a) - SigBits, sticky),
          exp |-> exp + BigBitLen(a) - SigBits]

Signed(neg, x) == [neg |-> neg, sig |-> x.sig, exp |-> x.exp]

FloatSubAligned(a, b, exp) ==
    IF BigCmp(a, b) = 0 THEN [neg |-> FALSE, sig |-> <<>>, exp |-> 0]
    ELSE IF BigCmp(a, b) > 0 THEN Signed(FALSE, RoundToFloat(BigSub(a, b), exp, FALSE))
    ELSE Signed(TRUE, RoundToFloat(BigSub(b, a), exp, FALSE))

\* x - y for floats x, y >= 0: the exact difference, rounded once.
FloatSub(x, y) ==
    IF y.sig = <<>> THEN Signed(FALSE, x)
    ELSE IF x.sig = <<>> THEN Signed(TRUE, y)
    ELSE LET exp == IF x.exp < y.exp THEN x.exp ELSE y.exp
         IN FloatSubAligned(BigShl(x.sig, x.exp - exp), BigShl(y.sig, y.exp - exp), exp)

\* -1, 0 or 1 as the magnitude of x is below, equal to or above the whole
\* number n >= 0.
MagCmp(x, n) ==
    IF x.exp >= 0 THEN BigCmp(BigShl(x.sig, x.exp), IntToDigits(n))
    ELSE BigCmp(x.sig, BigShl(IntToDigits(n), 0 - x.exp))

\* -1, 0 or 1 as the signed float d is below, equal to or above the whole
\* number n (of any sign).
FloatCmpInt(d, n) ==
    IF d.sig = <<>> THEN (IF n > 0 THEN -1 ELSE IF n = 0 THEN 0 ELSE 1)
    ELSE IF d.neg THEN (IF n >= 0 THEN -1 ELSE 0 - MagCmp(d, 0 - n))
    ELSE (IF n <= 0 THEN 1 ELSE MagCmp(d, n))

GuardDigits == 5

\* x / float64(n) for a float x > 0 and 1 <= n < 2^13: the quotient of the
\* significand with GuardDigits more digits, rounded once.
FloatDivInt(x, n) ==
    LET d == BigDivSmall(x.sig \o Zeros(GuardDigits), n)
    IN RoundToFloat(d.quot, x.exp - GuardDigits * DigitBits, d.rem # 0)

\* The magnitude of x in hundredths, rounded to nearest, ties to even: the
\* digits fmt prints for the verb %.2f.
Hundredths(x) ==
    IF x.sig = <<>> THEN 0
    ELSE IF x.exp >= 0 THEN DigitsToInt(BigShl(Normalize(MulDigits(x.sig, 100, 0)), x.exp))
    ELSE DigitsToInt(BigShrRound(Normalize(MulDigits(x.sig, 100, 0)), 0 - x.exp, FALSE))

\* fmt.Sprintf("%.2f", x) for the magnitude of x.
Fixed2(x) ==
    Itoa(Hundredths(x) \div 100) \o <<".">>
    \o <<DigitChars[((Hundredths(x) \div 10) % 10) + 1], DigitChars[(Hundredths(x) % 10) + 1]>>

\* fmt.Sprintf("%+.2f", d) for a signed float d.
SignedFixed2(d) == (IF d.sig # <<>> /\ d.neg THEN <<"-">> ELSE <<"+">>) \o Fixed2(d)

\* ---------------------------------------------------------------- percentages
FloatZero == [sig |-> <<>>, exp |-> 0]

\* Percent(): covered / total * 100 in float64, 0 when total is 0.
Percent(covered, total) ==
    IF total = 0 THEN FloatZero ELSE FloatMulInt(100, FloatDiv(covered, total))

RECURSIVE SumOver(_, _, _)
SumOver(cov, names, field) ==
    IF names = {} THEN 0
    ELSE LET name == CHOOSE n \in names : TRUE
         IN cov[name][field] + SumOver(cov, names \ {name}, field)

\* Coverage.TotalStmt and Coverage.CoveredStmt: the sums over the files.
TotalStmt(cov) == SumOver(cov, DOMAIN cov, "TotalStmt")
CoveredStmt(cov) == SumOver(cov, DOMAIN cov, "CoveredStmt")

CoveragePercent(cov) == Percent(CoveredStmt(cov), TotalStmt(cov))

\* Profile.CoveragePercent(), 0 for a file the coverage does not hold.
ProfilePercent(cov, name) ==
    IF name \in DOMAIN cov THEN Percent(cov[name].CoveredStmt, cov[name].TotalStmt)
    ELSE FloatZero

\* Coverage.ByPackage(): the files of a directory taken together; 0 for a
\* package without files.
PackagePercent(cov, pkg) ==
    LET names == {name \in DOMAIN cov : Dir(name) = pkg}
    IN Percent(SumOver(cov, names, "CoveredStmt"), SumOver(cov, names, "TotalStmt"))

\* fmt.Sprintf("%.2f%%", x)
PercentText(x) == Fixed2(x) \o <<"%">>

\* fmt.Sprintf("**%+.2f%%**", diff)
BoldDelta(diff) == <<"*", "*">> \o SignedFixed2(diff) \o <<"%", "*", "*">>

\* strings.Repeat(marker, n), as the list of the n markers.
Repeat(marker, n) == [i \in 1..n |-> marker]

Score(emoji, diffStr) == [emoji |-> emoji, diffStr |-> diffStr]

\* Variant: a gain of exactly 10 already earns the tada.
emojiBand_TadaAtTen(diff) ==
    IF FloatCmpInt(diff, -50) < 0 THEN Score(Repeat(":skull: ", 5), BoldDelta(diff))
    ELSE IF FloatCmpInt(diff, -10) < 0
    THEN Score(Repeat(":skull: ", FloatToInt(FloatDivInt(diff, 10))), BoldDelta(diff))
    ELSE IF FloatCmpInt(diff, 0) < 0 THEN Score(<<":thumbsdown:">>, BoldDelta(diff))
    ELSE IF FloatCmpInt(diff, 0) = 0 THEN Score(<<>>, <<"ø">>)
    ELSE IF FloatCmpInt(diff, 20) > 0 THEN Score(<<":star2:">>, BoldDelta(diff))
    ELSE IF FloatCmpInt(diff, 10) >= 0 THEN Score(<<":tada:">>, BoldDelta(diff))
    ELSE Score(<<":thumbsup:">>, BoldDelta(diff))

\* The switch of emojiScore over diff; int(-diff/10) is the truncated
\* float64 quotient.
emojiBand(diff) ==
    IF FloatCmpInt(diff, -50) < 0 THEN Score(Repeat(":skull: ", 5), BoldDelta(diff))
    ELSE IF FloatCmpInt(diff, -10) < 0
    THEN Score(Repeat(":skull: ", FloatToInt(FloatDivInt(diff, 10))), BoldDelta(diff))
    ELSE IF FloatCmpInt(diff, 0) < 0 THEN Score(<<":thumbsdown:">>, BoldDelta(diff))
    ELSE IF FloatCmpInt(diff, 0) = 0 THEN Score(<<>>, <<"ø">>)
    ELSE IF FloatCmpInt(diff, 20) > 0 THEN Score(<<":star2:">>, BoldDelta(diff))
    ELSE IF FloatCmpInt(diff, 10) > 0 THEN Score(<<":tada:">>, BoldDelta(diff))
    ELSE Score(<<":thumbsup:">>, BoldDelta(diff))

emojiScore(newPercent, oldPercent) == emojiBand(FloatSub(newPercent, oldPercent))

\* OverallCoverageDelta
OverallCoverageDelta == FloatSub(CoveragePercent(New), CoveragePercent(Old))

overallInfo(oldPercent, newPercent, score) ==
    [oldCov |-> PercentText(oldPercent), newCov |-> PercentText(newPercent),
     deltaStr |-> score.diffStr, emoji |-> score.emoji]

overallInfoOf(oldPercent, newPercent) ==
    overallInfo(oldPercent, newPercent, emojiScore(newPercent, oldPercent))

\* OverallCoverageInfo
OverallCoverageInfo == overallInfoOf(CoveragePercent(Old), CoveragePercent(New))

\* Variant: the suffix follows the covered statement counts, not the
\* percentages.
titleSuffix_ByCoveredCount(overallDelta) ==
    IF CoveredStmt(New) = CoveredStmt(Old) THEN "(no change)"
    ELSE IF CoveredStmt(New) > CoveredStmt(Old) THEN "**increase**"
    ELSE "**decrease**"

\* The switch of Title over the overall delta.
titleSuffix(overallDelta) ==
    IF FloatCmpInt(overallDelta, 0) = 0 THEN "(no change)"
    ELSE IF FloatCmpInt(overallDelta, 0) > 0 THEN "**increase**"
    ELSE "**decrease**"

titleOf(info, suffix) ==
    [newCov |-> info.newCov,
     deltaStr |-> IF suffix = "(no change)" THEN <<>> ELSE info.deltaStr,
     suffix |-> suffix]

\* Title: "### Coverage Report - <newCov> (no change)", or
\* "### Coverage Report - <newCov> (<deltaStr>) - <suffix>".
Title == titleOf(OverallCoverageInfo, titleSuffix(OverallCoverageDelta))

\* The switch of PRCoverageInfo over the percentage of the new code.
prEmojiOf(prPercent) ==
    IF FloatCmpInt(prPercent, 90) >= 0 THEN ":star2:"
    ELSE IF FloatCmpInt(prPercent, 80) >= 0 THEN ":tada:"
    ELSE IF FloatCmpInt(prPercent, 70) >= 0 THEN ":thumbsup:"
    ELSE IF FloatCmpInt(prPercent, 50) >= 0 THEN ":neutral_face:"
    ELSE IF FloatCmpInt(prPercent, 30) >= 0 THEN ":thumbsdown:"
    ELSE ":skull:"

prInfo(prPercent, total, covered) ==
    [prCov |-> PercentText(prPercent), emoji |-> prEmojiOf(Signed(FALSE, prPercent)),
     totalNew |-> total, coveredNew |-> covered]

\* prPercent of PRCoverageInfo: assigned only when totalNew > 0.
prPercent(total, covered) ==
    IF total > 0 THEN FloatMulInt(100, FloatDiv(covered, total)) ELSE FloatZero

\* Variant: the percentage is computed without the test of totalNew; 0/0 is
\* NaN, which is printed "NaN%" and compares false with every threshold.
PRCoverageInfo_Unguarded(total, covered) ==
    IF total = 0
    THEN [prCov |-> <<"N", "a", "N", "%">>, emoji |-> ":skull:",
          totalNew |-> total, coveredNew |-> covered]
    ELSE prInfo(prPercent(total, covered), total, covered)

\* PRCoverageInfo on the sums calculateNewCodeCoverage returned.
PRCoverageInfo(total, covered) == prInfo(prPercent(total, covered), total, covered)

\* newCodeCoverage < r.MinCoverage
belowMinCoverage(newCodeCoverage) == FloatCmpInt(newCodeCoverage, MinCoverage) < 0

\* The warning block of addOverallCoverageSummary, <<>> when it is not
\* written.
warningBlock(newCodeCoverage) ==
    IF belowMinCoverage(Signed(FALSE, newCodeCoverage))
    THEN <<[mark |-> "> [!WARNING]", coverage |-> PercentText(newCodeCoverage),
            threshold |-> MinCoverage]>>
    ELSE <<>>

\* addOverallCoverageSummary: what PRCoverageInfo returned (pr), and the rows
\* of the summary table and the warning block, each <<>> when it is not
\* written, and the statements table.
summaryOf(pr, total, covered) ==
    [pr |-> pr,
     totalRow |-> OverallCoverageInfo,
     newCodeRow |-> IF total > 0 THEN <<pr>> ELSE <<>>,
     warning |-> IF MinCoverage > 0 /\ total > 0
                 THEN warningBlock(Percent(covered, total)) ELSE <<>>,
     statements |-> [oldStmt |-> TotalStmt(Old), newStmt |-> TotalStmt(New),
                     oldCovered |-> CoveredStmt(Old), newCovered |-> CoveredStmt(New),
                     stmtChange |-> TotalStmt(New) - TotalStmt(Old),
                     coveredChange |-> CoveredStmt(New) - CoveredStmt(Old)]]

addOverallCoverageSummary(total, covered) ==
    summaryOf(PRCoverageInfo(total, covered), total, covered)

\* ---------------------------------------------------------------- lists
packageRow(pkg, newPercent, oldPercent) ==
    [pkg |-> pkg, newPercent |-> PercentText(newPercent),
     score |-> emojiScore(newPercent, oldPercent)]

\* addPackageDetails: one row per entry of ChangedPackages, in list order.
addPackageDetails ==
    [i \in DOMAIN ChangedPackages |->
        packageRow(ChangedPackages[i], PackagePercent(New, ChangedPackages[i]),
                   PackagePercent(Old, ChangedPackages[i]))]

TestSuffix == <<"_", "t", "e", "s", "t", ".", "g", "o">>

\* The files of the list for which keep holds, in list order.
RECURSIVE Filter(_, _)
Filter(list, keep) ==
    IF list = <<>> THEN <<>>
    ELSE (IF Head(list) \in keep THEN <<Head(list)>> ELSE <<>>) \o Filter(Tail(list), keep)

\* GetTotal, GetCovered and GetMissed of a profile that may be nil.
Counts(cov, name) ==
    IF name \in DOMAIN cov
    THEN [total |-> cov[name].TotalStmt, covered |-> cov[name].CoveredStmt,
          missed |-> cov[name].TotalStmt - cov[name].CoveredStmt]
    ELSE [total |-> 0, covered |-> 0, missed |-> 0]

\* valueWithDelta: the new value and what it gained over the old one.
valueWithDelta(oldVal, newVal) == [value |-> newVal, gained |-> newVal - oldVal]

fileRow(name, newPercent, oldPercent, oldCounts, newCounts) ==
    [name |-> name, newPercent |-> PercentText(newPercent),
     score |-> emojiScore(newPercent, oldPercent),
     total |-> valueWithDelta(oldCounts.total, newCounts.total),
     covered |-> valueWithDelta(oldCounts.covered, newCounts.covered),
     missed |-> valueWithDelta(oldCounts.missed, newCounts.missed)]

\* addCodeFileDetails: the heading and one row per file, in list order.
addCodeFileDetails(files) ==
    [heading |-> "### Changed files (no unit tests)",
     rows |-> [i \in DOMAIN files |->
        fileRow(files[i], ProfilePercent(New, files[i]), ProfilePercent(Old, files[i]),
                Counts(Old, files[i]), Counts(New, files[i]))]]

\* addTestFileDetails: the heading and the names, in list order.
addTestFileDetails(files) ==
    [heading |-> "### Changed unit test files", names |-> files]

\* The two groups of addFileDetails, each <<>> when it is not written.
fileGroups(codeFiles, unitTestFiles) ==
    [codeFiles |-> IF Len(codeFiles) > 0 THEN <<addCodeFileDetails(codeFiles)>> ELSE <<>>,
     unitTestFiles |-> IF Len(unitTestFiles) > 0
                       THEN <<addTestFileDetails(unitTestFiles)>> ELSE <<>>]

\* Variant: the table of the code files is written also when it is empty.
addFileDetails_CodeTableAlways ==
    LET tests == {ChangedFiles[i] : i \in {j \in DOMAIN ChangedFiles :
                                              HasSuffix(ChangedFiles[j], TestSuffix)}}
        all == {ChangedFiles[i] : i \in DOMAIN ChangedFiles}
    IN [codeFiles |-> <<addCodeFileDetails(Filter(ChangedFiles, all \ tests))>>,
        unitTestFiles |-> fileGroups(<<>>, Filter(ChangedFiles, tests)).unitTestFiles]

\* addFileDetails: the changed files without "_test.go" in a table, the
\* others in a list of names.
addFileDetails ==
    LET tests == {ChangedFiles[i] : i \in {j \in DOMAIN ChangedFiles :
                                              HasSuffix(ChangedFiles[j], TestSuffix)}}
        all == {ChangedFiles[i] : i \in DOMAIN ChangedFiles}
    IN fileGroups(Filter(ChangedFiles, all \ tests), Filter(ChangedFiles, tests))

\* ---------------------------------------------------------------- details
\* Variant: source lines are always written with "+".
blockLines_AlwaysPlus(block) ==
    IF Len(block.Lines) > 0
    THEN [i \in DOMAIN block.Lines |->
            [prefix |-> "+", source |-> <<block.Lines[i]>>, summary |-> <<>>]]
    ELSE <<[prefix |-> IF block.Covered THEN "+" ELSE "-", source |-> <<>>,
            summary |-> <<[lineRange |-> IF block.StartLine = block.EndLine
                                         THEN <<"Line", block.StartLine>>
                                         ELSE <<"Lines", block.StartLine, block.EndLine>>,
                           NumStmt |-> block.NumStmt,
                           stmtText |-> IF block.NumStmt # 1 THEN "statements"
                                        ELSE "statement",
                           marker |-> IF block.Covered THEN "COVERED" ELSE "NOT COVERED"]>>]>>

\* One block of addNewCodeDetails: its source lines with the prefix of its
\* coverage, or one line naming its range and statements.
blockLines(block) ==
    IF Len(block.Lines) > 0
    THEN [i \in DOMAIN block.Lines |->
            [prefix |-> IF block.Covered THEN "+" ELSE "-", source |-> <<block.Lines[i]>>,
             summary |-> <<>>]]
    ELSE <<[prefix |-> IF block.Covered THEN "+" ELSE "-", source |-> <<>>,
            summary |-> <<[lineRange |-> IF block.StartLine = block.EndLine
                                         THEN <<"Line", block.StartLine>>
                                         ELSE <<"Lines", block.StartLine, block.EndLine>>,
                           NumStmt |-> block.NumStmt,
                           stmtText |-> IF block.NumStmt # 1 THEN "statements"
                                        ELSE "statement",
                           marker |-> IF block.Covered THEN "COVERED" ELSE "NOT COVERED"]>>]>>

RECURSIVE fileLines(_, _)
fileLines(blocks, fileName) ==
    IF blocks = <<>> THEN <<>>
    ELSE (IF Head(blocks).FileName = fileName THEN blockLines(Head(blocks)) ELSE <<>>)
         \o fileLines(Tail(blocks), fileName)

\* addNewCodeDetails: nothing for an empty block list; otherwise the files of
\* the blocks, sorted, each with the lines of its blocks in list order.
addNewCodeDetails(blocks) ==
    LET sortedFiles == SortedList({blocks[i].FileName : i \in DOMAIN blocks})
    IN [i \in DOMAIN sortedFiles |->
          [fileName |-> sortedFiles[i], lines |-> fileLines(blocks, sortedFiles[i])]]

\* ---------------------------------------------------------------- report
\* Before Markdown: nothing is written and no call is under way.
NotStarted ==
    /\ report = NoReport
    /\ pc = "idle"
    /\ results = <<>>
    /\ callsLeft = 0
    /\ newCodeBlocks = <<>>

MinCoverages == {50, 58}

\* The caller sets the threshold on the Report.
SetMinCoverage ==
    /\ NotStarted
    /\ MinCoverage = 0
    /\ \E m \in MinCoverages : MinCoverage' = m
    /\ UNCHANGED <<inputs, astCache, pc, idx, totalNew, coveredNew, log, results,
                   callsLeft, newCodeBlocks, ChangedPackages, report, trimmed, parsing>>

\* Variant: a name that becomes empty stays empty.
trimPrefix_NoSentinel(name, prefix) ==
    TrimPrefix(TrimPrefix(name, prefix), <<"/">>)

\* trimPrefix(name, prefix)
trimPrefix(name, prefix) ==
    IF TrimPrefix(TrimPrefix(name, prefix), <<"/">>) = <<>> THEN <<".">>
    ELSE TrimPrefix(TrimPrefix(name, prefix), <<"/">>)

\* Coverage.TrimPrefix: every file key without the prefix and one separator
\* after it, "." for a key that becomes empty.  When two keys become one,
\* the profile of either is kept.
TrimmedCoverages(cov, prefix) ==
    LET keys == {trimPrefix(name, prefix) : name \in DOMAIN cov}
    IN {[key \in keys |-> cov[from[key]]] :
          from \in {f \in [keys -> DOMAIN cov] :
                      \A key \in keys : trimPrefix(f[key], prefix) = key}}

Prefixes == {<<"r">>, <<"p">>}

\* Report.TrimPrefix
ReportTrimPrefix ==
    /\ NotStarted
    /\ trimmed = <<>>
    /\ \E prefix \in Prefixes :
        /\ ChangedPackages' = [i \in DOMAIN ChangedPackages |->
                                  trimPrefix(ChangedPackages[i], prefix)]
        /\ ChangedFiles' = [i \in DOMAIN ChangedFiles |->
                               trimPrefix(ChangedFiles[i], prefix)]
        /\ Old' \in TrimmedCoverages(Old, prefix)
        /\ New' \in TrimmedCoverages(New, prefix)
        /\ trimmed' = <<prefix>>
    /\ UNCHANGED <<DiffInfo, astMapper, fs, astCache, pc, idx, totalNew, coveredNew,
                   log, results, callsLeft, newCodeBlocks, MinCoverage, report, parsing>>

\* Markdown up to the first call of calculateNewCodeCoverage: the title.
MarkdownTitle ==
    /\ NotStarted
    /\ report' = [report EXCEPT !.title = <<Title>>]
    /\ callsLeft' = 1
    /\ UNCHANGED <<inputs, astCache, pc, idx, totalNew, coveredNew, log, results,
                   newCodeBlocks, ChangedPackages, MinCoverage, trimmed, parsing>>

\* Markdown from the return of PRCoverageInfo's call to the second call:
\* addOverallCoverageSummary, addPackageDetails, addFileDetails.
MarkdownSummary ==
    /\ report.title # <<>>
    /\ report.summary = <<>>
    /\ pc = "idle"
    /\ Len(results) = 1
    /\ report' = [report EXCEPT
                    !.summary = <<addOverallCoverageSummary(results[1][1], results[1][2])>>,
                    !.packages = <<addPackageDetails>>,
                    !.files = <<addFileDetails>>]
    /\ callsLeft' = 1
    /\ UNCHANGED <<inputs, astCache, pc, idx, totalNew, coveredNew, log, results,
                   newCodeBlocks, ChangedPackages, MinCoverage, trimmed, parsing>>

\* addNewCodeDetailsSection after its call has returned: nothing when the
\* total is 0, otherwise addNewCodeDetails on the blocks of getNewCodeBlocks.
MarkdownDetails ==
    /\ report.summary # <<>>
    /\ report.details = <<>>
    /\ pc = "idle"
    /\ Len(results) = 2
    /\ \/ /\ results[2][1] = 0
          /\ report' = [report EXCEPT !.details = << <<>> >>]
       \/ /\ results[2][1] # 0
          /\ newCodeBlocks # <<>>
          /\ report' = [report EXCEPT !.details = <<addNewCodeDetails(newCodeBlocks[1])>>]
    /\ UNCHANGED <<inputs, astCache, pc, idx, totalNew, coveredNew, log, results,
                   callsLeft, newCodeBlocks, ChangedPackages, MinCoverage, trimmed,
                   parsing>>

NextReport ==
    \/ Next
    \/ SetMinCoverage
    \/ ReportTrimPrefix
    \/ MarkdownTitle
    \/ MarkdownSummary
    \/ MarkdownDetails

\* ---------------------------------------------------------------- report runs
MaxCount == 3

\* Covered and uncovered statements of a coverage: small numbers, and the
\* numbers of 29/50, 92/102, 100/100 and 21/26.
StmtPairs ==
    ((0..MaxCount) \X (0..MaxCount)) \cup {<<29, 21>>, <<92, 10>>, <<100, 0>>, <<21, 5>>}

TwoBlocks(pair) ==
    ProfileOf(<<Block(1, 1, 1, 1, pair[1], 1), Block(2, 1, 2, 1, pair[2], 0)>>)

\* Numbers: the old coverage has one file, the new one another, which is
\* the changed file and new as a whole.
InitNumbers ==
    \E old \in StmtPairs, new \in StmtPairs :
        NewReport(MA :> TwoBlocks(old), FQ :> TwoBlocks(new), <<FQ>>, <<>>, FALSE, <<>>, 0)

RA == <<"r", "/", "a">>                       \* "r/a"
RDA == <<"r", "/", "-", "/", "a">>            \* "r/-/a"
TG == <<"r", "/", "a", "_", "t", "e", "s", "t", ".", "g", "o">>   \* "r/a_test.go"

ListNames == {FQ, RP, MA, RA, RDA, TG}

\* Lists: one or two changed files in either order; the first is in both
\* coverages, the second in neither.
InitLists ==
    \E first \in ListNames, second \in ListNames :
        NewReport([name \in {first} |-> TwoBlocks(<<1, 1>>)],
                  [name \in {first} |-> TwoBlocks(<<2, 1>>)],
                  IF first = second THEN <<first>> ELSE <<first, second>>,
                  <<>>, FALSE, <<>>, 0)

\* Details: "r/p/a" with any blocks, changed as its change-set entry says,
\* and the new file "ma" before it; the source of "r/p/a" is found as "p/a"
\* or not at all.
InitDetails ==
    \E blocks \in NewBlockSeqs,
       diffInfo \in {<<>>} \cup {<<FQ :> FileDiff(added, {})>> : added \in SUBSET Lines},
       tree \in {<<>>, RP :> Lines} :
        NewReport(FQ :> ProfileOf(<<Block(1, 1, 1, 1, 1, 1)>>),
                  (FQ :> ProfileOf(blocks)) @@ (MA :> ProfileOf(<<Block(1, 1, 1, 1, 1, 0)>>)),
                  <<FQ, MA>>, diffInfo, FALSE, tree, 0)

InitReport == InitNumbers \/ InitLists \/ InitDetails

SpecReport == InitReport /\ [][NextReport]_vars

\* ---------------------------------------------------------------- report claims
\* The sign of new percent minus old percent in exact arithmetic, a coverage
\* without statements counting as 0 percent: -1, 0 or 1.
CrossDelta(oc, ot, nc, nt) ==
    (IF nt = 0 THEN 0 ELSE nc * (IF ot = 0 THEN 1 ELSE ot))
    - (IF ot = 0 THEN 0 ELSE oc * (IF nt = 0 THEN 1 ELSE nt))

OverallSign ==
    LET d == CrossDelta(CoveredStmt(Old), TotalStmt(Old), CoveredStmt(New), TotalStmt(New))
    IN IF d < 0 THEN -1 ELSE IF d = 0 THEN 0 ELSE 1

\* C16 (title suffix): the title ends in "(no change)" exactly when the new
\* overall percentage equals the old one, has "**increase**" exactly when it is
\* higher and "**decrease**" exactly when it is lower; from 100/100 to 92/102
\* the title is the decrease title with -9.80%.
C16_TitleSuffixBySign ==
    report.title # <<>> =>
        /\ report.title[1].suffix \in {"(no change)", "**increase**", "**decrease**"}
        /\ report.title[1].suffix = "(no change)" <=> OverallSign = 0
        /\ report.title[1].suffix = "**increase**" <=> OverallSign > 0
        /\ report.title[1].suffix = "**decrease**" <=> OverallSign < 0
        /\ (/\ CoveredStmt(Old) = 100 /\ TotalStmt(Old) = 100
            /\ CoveredStmt(New) = 92 /\ TotalStmt(New) = 102)
           => /\ report.title[1].suffix = "**decrease**"
              /\ report.title[1].deltaStr
                    = <<"*", "*", "-", "9", ".", "8", "0", "%", "*", "*">>

\* The title of the report from 100/100 to 92/102.
C16_Witness ==
    /\ report.title # <<>>
    /\ CoveredStmt(Old) = 100 /\ TotalStmt(Old) = 100
    /\ CoveredStmt(New) = 92 /\ TotalStmt(New) = 102
    /\ report.title[1].suffix = "**decrease**"
    /\ report.title[1].newCov = <<"9", "0", ".", "2", "0", "%">>

\* The state in which Markdown has just written the summary.
SummaryWritten ==
    /\ report.summary # <<>>
    /\ report.details = <<>>
    /\ pc = "idle"
    /\ callsLeft = 1
    /\ Len(results) = 1

\* floor(-d / 10) for -50 <= d < -10: the largest k with d <= -10 * k.
SkullCount(d) ==
    CHOOSE k \in 1..5 :
        /\ FloatCmpInt(d, (-10) * k) <= 0
        /\ k < 5 => FloatCmpInt(d, (-10) * (k + 1)) > 0

\* The marker the bands assign to the delta d.
BandMarker(d) ==
    CASE FloatCmpInt(d, -50) < 0 -> Repeat(":skull: ", 5)
      [] FloatCmpInt(d, -50) >= 0 /\ FloatCmpInt(d, -10) < 0 -> Repeat(":skull: ", SkullCount(d))
      [] FloatCmpInt(d, -10) >= 0 /\ FloatCmpInt(d, 0) < 0 -> <<":thumbsdown:">>
      [] FloatCmpInt(d, 0) = 0 -> <<>>
      [] FloatCmpInt(d, 0) > 0 /\ FloatCmpInt(d, 10) <= 0 -> <<":thumbsup:">>
      [] FloatCmpInt(d, 10) > 0 /\ FloatCmpInt(d, 20) <= 0 -> <<":tada:">>
      [] FloatCmpInt(d, 20) > 0 -> <<":star2:">>

BandsOf(d) ==
    {b \in 1..7 :
        CASE b = 1 -> FloatCmpInt(d, -50) < 0
          [] b = 2 -> FloatCmpInt(d, -50) >= 0 /\ FloatCmpInt(d, -10) < 0
          [] b = 3 -> FloatCmpInt(d, -10) >= 0 /\ FloatCmpInt(d, 0) < 0
          [] b = 4 -> FloatCmpInt(d, 0) = 0
          [] b = 5 -> FloatCmpInt(d, 0) > 0 /\ FloatCmpInt(d, 10) <= 0
          [] b = 6 -> FloatCmpInt(d, 10) > 0 /\ FloatCmpInt(d, 20) <= 0
          [] b = 7 -> FloatCmpInt(d, 20) > 0}

BandHolds(row, d) ==
    /\ Cardinality(BandsOf(d)) = 1
    /\ row.emoji = BandMarker(d)
    /\ FloatCmpInt(d, 0) = 0 => row.deltaStr = <<"ø">>
    /\ FloatCmpInt(d, 0) # 0 =>
          /\ row.deltaStr = <<"*", "*">> \o SignedFixed2(d) \o <<"%", "*", "*">>
          /\ row.deltaStr[3] = (IF FloatCmpInt(d, 0) > 0 THEN "+" ELSE "-")
    /\ row.deltaStr = <<"*", "*", "-", "1", "9", ".", "2", "3", "%", "*", "*">>
          => row.emoji = <<":skull: ">>
    /\ row.deltaStr = <<"*", "*", "-", "5", "0", ".", "0", "0", "%", "*", "*">>
          => row.emoji = Repeat(":skull: ", 5)

\* C17 (emojiScore): the marker of the total row follows the band of the delta
\* new - old: five skulls below -50, floor(-delta/10) skulls from -50 up to
\* but excluding -10, thumbs-down from -10 up to but excluding 0, no marker
\* and the neutral text at 0, thumbs-up up to and including 10, tada up to and
\* including 20, star above 20; exactly one band applies, and the delta text
\* is the bold signed two-decimal percentage in every band except 0.
C17_EmojiBands ==
    SummaryWritten => BandHolds(report.summary[1].totalRow, OverallCoverageDelta)

\* A drop of 19.23 points (100% to 21/26) shown with one skull.
C17_Witness ==
    /\ SummaryWritten
    /\ CoveredStmt(New) = 21 /\ TotalStmt(New) = 26
    /\ CoveredStmt(Old) = TotalStmt(Old) /\ TotalStmt(Old) > 0
    /\ report.summary[1].totalRow.emoji = <<":skull: ">>
    /\ report.summary[1].totalRow.deltaStr
          = <<"*", "*", "-", "1", "9", ".", "2", "3", "%", "*", "*">>

\* C15 (threshold): the summary holds the "> [!WARNING]" block exactly when
\* MinCoverage > 0, totalNew > 0 and coveredNew / totalNew * 100 is below
\* MinCoverage, and the "New Code" row exactly when totalNew > 0; a threshold
\* of 0 and a run without new statements never show the warning.
C15_ThresholdWarning ==
    report.summary # <<>> =>
        LET total == results[1][1]
            covered == results[1][2]
        IN /\ report.summary[1].warning # <<>>
                <=> (MinCoverage > 0 /\ total > 0 /\ 100 * covered < MinCoverage * total)
           /\ report.summary[1].newCodeRow # <<>> <=> total > 0
           /\ MinCoverage = 0 => report.summary[1].warning = <<>>
           /\ total = 0 => report.summary[1].warning = <<>>

\* New code covered 29 of 50 under a threshold of 58: the summary is written.
C15_Witness ==
    /\ report.summary # <<>>
    /\ MinCoverage = 58
    /\ results[1] = <<50, 29>>

\* s <= t in byte order.
StrLeq(s, t) == s = t \/ StrLess(s, t)

Sorted(list) == \A i \in 1..(Len(list) - 1) : StrLeq(list[i], list[i + 1])

EachOnce(list) == \A i, j \in DOMAIN list : list[i] = list[j] => i = j

\* The report has lists to render: they are as NewReport built them, or as
\* TrimPrefix rewrote them.
ListsOrdered ==
    /\ Sorted(ChangedFiles)
    /\ Sorted(ChangedPackages)
    /\ EachOnce(ChangedPackages)
    /\ {ChangedPackages[i] : i \in DOMAIN ChangedPackages}
          = {Dir(ChangedFiles[i]) : i \in DOMAIN ChangedFiles}

\* C18 (ordering): in every report that is rendered, after NewReport on any
\* order of the changed files and also after TrimPrefix with any prefix,
\* ChangedFiles is sorted and ChangedPackages is sorted and holds the
\* directory of each changed file once.
C18_ListsSorted == report.packages # <<>> => ListsOrdered

\* The changed files "r/-/a" and "r/a" rendered after TrimPrefix("r").
C18_Witness ==
    /\ report.packages # <<>>
    /\ trimmed = << <<"r">> >>
    /\ ChangedFiles = << <<"-", "/", "a">>, <<"a">> >>
    /\ ChangedPackages = << <<".">>, <<"-">> >>

\* The blocks getNewCodeBlocks returned for the details section.
DetailBlocks == IF newCodeBlocks = <<>> THEN <<>> ELSE newCodeBlocks[1]

BlockPrefix(block) == IF block.Covered THEN "+" ELSE "-"

\* The line-range summary of a block without source lines.
BlockSummary(block) ==
    [lineRange |-> IF block.StartLine = block.EndLine
                   THEN <<"Line", block.StartLine>>
                   ELSE <<"Lines", block.StartLine, block.EndLine>>,
     NumStmt |-> block.NumStmt,
     stmtText |-> IF block.NumStmt = 1 THEN "statement" ELSE "statements",
     marker |-> IF block.Covered THEN "COVERED" ELSE "NOT COVERED"]

\* The rendered line comes from the block.
LineOfBlock(line, block) ==
    /\ line.prefix = BlockPrefix(block)
    /\ IF block.Lines # <<>>
       THEN /\ line.summary = <<>>
            /\ \E i \in DOMAIN block.Lines : line.source = <<block.Lines[i]>>
       ELSE /\ line.source = <<>>
            /\ line.summary = <<BlockSummary(block)>>

\* The number of lines the blocks of a file are rendered as.
RECURSIVE RenderedCount(_, _)
RenderedCount(blocks, fileName) ==
    IF blocks = <<>> THEN 0
    ELSE (IF Head(blocks).FileName # fileName THEN 0
          ELSE IF Head(blocks).Lines = <<>> THEN 1 ELSE Len(Head(blocks).Lines))
         + RenderedCount(Tail(blocks), fileName)

SectionHolds(section, blocks) ==
    /\ Len(section.lines) = RenderedCount(blocks, section.fileName)
    /\ \A i \in DOMAIN section.lines :
          \E j \in DOMAIN blocks :
              /\ blocks[j].FileName = section.fileName
              /\ LineOfBlock(section.lines[i], blocks[j])
    /\ \A j \in DOMAIN blocks :
          blocks[j].FileName = section.fileName =>
              /\ \E i \in DOMAIN section.lines : LineOfBlock(section.lines[i], blocks[j])
              /\ blocks[j].Lines # <<>> =>
                    \A k \in DOMAIN blocks[j].Lines :
                        \E i \in DOMAIN section.lines :
                            /\ section.lines[i].source = <<blocks[j].Lines[k]>>
                            /\ section.lines[i].prefix = BlockPrefix(blocks[j])
    /\ Unparsable(section.fileName) =>
          \A i \in DOMAIN section.lines : section.lines[i].summary # <<>>

EditSource ==
    /\ pc = "idle"
    /\ astMapper
    /\ results # <<>>
    /\ callsLeft > 0
    /\ \E tree \in Trees \ {fs} : fs' = tree
    /\ UNCHANGED <<Old, New, ChangedFiles, DiffInfo, astMapper, astCache, pc, idx,
                   totalNew, coveredNew, log, results, callsLeft, newCodeBlocks,
                   rendering, parsing>>

NextCache == Next \/ EditSource

\* calculateNewCodeCoverage is run MaxRuns times on one Report whose file
\* has a change-set entry of added lines, or that has no change-set.
InitCache ==
    \E newBlocks \in NewBlockSeqs,
       diffInfo \in {<<>>} \cup {<<FQ :> FileDiff(added, {})>> : added \in SUBSET Lines},
       tree \in Trees,
       mapper \in BOOLEAN :
        /\ mapper \/ tree = <<>>
        /\ NewReport(FQ :> ProfileOf(<<Block(1, 1, 1, 1, 1, 1)>>),
                     FQ :> ProfileOf(newBlocks),
                     <<FQ>>, diffInfo, mapper, tree, MaxRuns)

SpecCache == InitCache /\ [][NextCache]_vars

\* The blocks of the logged files are counted on the cached index.
ServedFromCache ==
    \A i \in DOMAIN log :
        (log[i].case = "blocks" /\ log[i].file \in DOMAIN astCache) =>
            \A j \in DOMAIN log[i].blocks :
                LET b == log[i].blocks[j]
                    k == Cardinality(LinesOf(b.block) \cap Changed(Entry(i))
                                     \cap astCache[log[i].file])
                IN /\ b.path = "ast" <=> k >= 1
                   /\ b.path = "ast" => b.total = k

\* A step keeps every cached entry as it is.
CacheKept ==
    \A f \in DOMAIN astCache : f \in DOMAIN astCache' /\ astCache'[f] = astCache[f]

\* A step that changes the cache is the turn of the changed file that is
\* not cached yet, and it adds the index of the file's source as it is found.
CacheFilledOnFirstAccess ==
    astCache' # astCache =>
        /\ pc = "calc" /\ idx <= Len(ChangedFiles)
        /\ ChangedFiles[idx] \notin DOMAIN astCache
        /\ DOMAIN astCache' = DOMAIN astCache \cup {ChangedFiles[idx]}
        /\ StatementIndex(ChangedFiles[idx]) = <<astCache'[ChangedFiles[idx]]>>

\* C21 (statement index cache): the cache of a new Report is empty; the
\* index of a file is stored by the first turn that needs it and finds its
\* source; every block of that turn and of every later call is counted on
\* the stored index, also when the source has changed since; and no step
\* replaces, changes or removes a stored index.
C21_IndexCachedOnce ==
    /\ []((results = <<>> /\ pc = "idle") => astCache = <<>>)
    /\ []ServedFromCache
    /\ [][CacheKept /\ CacheFilledOnFirstAccess]_vars

\* The second call counts a block on the index cached by the first call
\* although the source has no statement on that line any more.
C21_Witness ==
    /\ Len(results) = 1
    /\ pc = "calc"
    /\ FQ \in DOMAIN astCache
    /\ StatementIndex(FQ) # <<>>
    /\ StatementIndex(FQ) # <<astCache[FQ]>>
    /\ \E i \in DOMAIN log : \E j \in DOMAIN log[i].blocks :
          /\ log[i].blocks[j].path = "ast"
          /\ LinesOf(log[i].blocks[j].block) \cap Changed(Entry(i))
                \cap StatementIndex(FQ)[1] = {}

\* The identifier ends with "_test.go".
IsTestFile(name) ==
    /\ Len(name) >= 8
    /\ SubSeq(name, Len(name) - 7, Len(name)) = <<"_", "t", "e", "s", "t", ".", "g", "o">>

\* The names listed in the group of the code files, and of the test files.
CodeNames ==
    IF report.files[1].codeFiles = <<>> THEN <<>>
    ELSE [i \in DOMAIN report.files[1].codeFiles[1].rows |->
             report.files[1].codeFiles[1].rows[i].name]

TestNames ==
    IF report.files[1].unitTestFiles = <<>> THEN <<>>
    ELSE report.files[1].unitTestFiles[1].names

\* C22 (per-file partition): a changed file is listed under "Changed unit
\* test files" if and only if its identifier ends with "_test.go", and under
\* "Changed files (no unit tests)" otherwise; a heading is written only for
\* a group that has files; the test files are listed by name only; inside a
\* group the files keep the order of ChangedFiles.
C22_FilePartition ==
    report.files # <<>> =>
        /\ TestNames = SelectSeq(ChangedFiles, IsTestFile)
        /\ CodeNames = SelectSeq(ChangedFiles, LAMBDA name : ~IsTestFile(name))
        /\ \A i \in DOMAIN ChangedFiles :
              (\E j \in DOMAIN TestNames : TestNames[j] = ChangedFiles[i])
                 # (\E j \in DOMAIN CodeNames : CodeNames[j] = ChangedFiles[i])
        /\ report.files[1].codeFiles # <<>>
              <=> \E i \in DOMAIN ChangedFiles : ~IsTestFile(ChangedFiles[i])
        /\ report.files[1].unitTestFiles # <<>>
              <=> \E i \in DOMAIN ChangedFiles : IsTestFile(ChangedFiles[i])
        /\ report.files[1].codeFiles # <<>> =>
              report.files[1].codeFiles[1].heading = "### Changed files (no unit tests)"
        /\ report.files[1].unitTestFiles # <<>> =>
              /\ report.files[1].unitTestFiles[1].heading = "### Changed unit test files"
              /\ DOMAIN report.files[1].unitTestFiles[1] = {"heading", "names"}

\* Only a test file changed: its name is listed and no table is written.
C22_Witness ==
    /\ report.files # <<>>
    /\ ChangedFiles = <<TG>>
    /\ report.files[1].codeFiles = <<>>
    /\ report.files[1].unitTestFiles
          = <<[heading |-> "### Changed unit test files", names |-> <<TG>>]>>

\* ---------------------------------------------------------------- trimming runs
MaxNameLen == 3     \* the longest file identifier of the trimming runs

RECURSIVE NamesUpTo(_)
NamesUpTo(n) ==
    IF n = 0 THEN {<<>>}
    ELSE NamesUpTo(n - 1)
         \cup {Append(name, ch) : name \in NamesUpTo(n - 1), ch \in {"/", "a", "r"}}

\* Clean paths, relative or absolute: no empty segment, no trailing separator.
TrimNames ==
    {name \in NamesUpTo(MaxNameLen) :
        /\ name # <<>>
        /\ name[Len(name)] # "/"
        /\ \A i \in 1..(Len(name) - 1) : ~(name[i] = "/" /\ name[i + 1] = "/")}

\* A Report of one or two changed files without coverage, before TrimPrefix.
InitTrim ==
    \E first \in TrimNames, second \in TrimNames :
        NewReport(<<>>, <<>>, IF first = second THEN <<first>> ELSE <<first, second>>,
                  <<>>, FALSE, <<>>, 0)

SpecTrim == InitTrim /\ [][ReportTrimPrefix]_vars

\* The entry without the prefix it starts with, then without one leading
\* separator, "." when nothing is left.
WithoutSlash(name) == IF name # <<>> /\ name[1] = "/" THEN Tail(name) ELSE name

Trimmed(name, prefix) ==
    LET rest == IF /\ Len(name) >= Len(prefix)
                   /\ \A i \in 1..Len(prefix) : name[i] = prefix[i]
                THEN [i \in 1..(Len(name) - Len(prefix)) |-> name[i + Len(prefix)]]
                ELSE name
    IN IF WithoutSlash(rest) = <<>> THEN <<".">> ELSE WithoutSlash(rest)

StartsWith(name, prefix) ==
    Len(name) >= Len(prefix) /\ \A i \in 1..Len(prefix) : name[i] = prefix[i]

TrimmedList(before, after, prefix) ==
    /\ Len(after) = Len(before)
    /\ \A i \in DOMAIN before :
          /\ after[i] = Trimmed(before[i], prefix)
          /\ after[i] # <<>>
          /\ ~StartsWith(before[i], prefix) =>
                \/ after[i] = before[i]
                \/ before[i][1] = "/" /\ after[i] = Tail(before[i])
                \/ before[i] = <<"/">> /\ after[i] = <<".">>

\* C23 (path trimming): TrimPrefix(prefix) replaces every entry of
\* ChangedFiles and ChangedPackages, in place, by the entry without the
\* prefix and without one separator after it, "." when that is empty; an
\* entry that does not start with the prefix loses at most one leading
\* separator; both lists keep their length and the positions of the entries.
C23_TrimPrefixRewrites ==
    [][(trimmed = <<>> /\ trimmed' # <<>>) =>
          /\ TrimmedList(ChangedFiles, ChangedFiles', trimmed'[1])
          /\ TrimmedList(ChangedPackages, ChangedPackages', trimmed'[1])]_vars

\* TrimPrefix("r") on the changed files "/a" and "r": the first loses its
\* separator, the second becomes ".".
C23_Witness ==
    /\ trimmed = << <<"r">> >>
    /\ ChangedFiles = << <<"a">>, <<".">> >>
    /\ ChangedPackages = << <<".">>, <<".">> >>

\* ---------------------------------------------------------------- query runs
\* The queries of the change-set for the file ChangedFiles[1]; results holds
\* the answer of every query made.
QueryRanges == (0..(MaxLine + 1)) \X (0..(MaxLine + 1))

\* DiffInfo.IsLineInRange(fileName, startLine, endLine)
QueryRange ==
    /\ pc = "idle"
    /\ callsLeft = 0
    /\ results = <<>>
    /\ \E range \in QueryRanges :
        \E found \in findFileDiffResults(DiffInfo, ChangedFiles[1]) :
            results' = <<[query |-> "IsLineInRange", startLine |-> range[1],
                          endLine |-> range[2], found |-> found,
                          value |-> IsLineInRange(DiffInfo, found, range[1], range[2])]>>
    /\ UNCHANGED <<inputs, astCache, pc, idx, totalNew, coveredNew, log, callsLeft,
                   newCodeBlocks, rendering, parsing>>

\* DiffInfo.IsLineAdded(fileName, lineNum), for the lines from startLine on,
\* one after the other.
QueryLine ==
    /\ pc = "idle"
    /\ callsLeft = 0
    /\ results # <<>>
    /\ \E lineNum \in {results[1].startLine + Len(results) - 1} \cap (0..(MaxLine + 1)) :
        /\ \E found \in findFileDiffResults(DiffInfo, ChangedFiles[1]) :
              results' = Append(results,
                                [query |-> "IsLineAdded", lineNum |-> lineNum,
                                 found |-> found,
                                 value |-> IsLineAdded(DiffInfo, found, lineNum)])
    /\ UNCHANGED <<inputs, astCache, pc, idx, totalNew, coveredNew, log, callsLeft,
                   newCodeBlocks, rendering, parsing>>

NextQuery == QueryRange \/ QueryLine

\* The entries a change-set can hold for a key.
QueryDiffs == {FileDiff({1}, {}), FileDiff({}, {2}), FileDiff({}, {})}

\* A query file and a change-set, nil or with any of the four identifiers
\* as keys.
InitQuery ==
    \E fileName \in PathNames,
       diffInfo \in {<<>>} \cup {<<d>> : d \in UNION {[keys -> QueryDiffs] :
                                                        keys \in SUBSET PathNames}} :
        NewReport(<<>>, <<>>, <<fileName>>, diffInfo, FALSE, <<>>, 0)

SpecQuery == InitQuery /\ [][NextQuery]_vars

\* The answers IsLineAdded gave for the lines of the range.
LineAnswers(startLine, endLine) ==
    {i \in DOMAIN results :
        /\ results[i].query = "IsLineAdded"
        /\ results[i].lineNum \in startLine..endLine}

\* C24 as stated (range query): IsLineInRange(file, start, end) is true if
\* and only if IsLineAdded(file, n) is true for a line n of start..end; it
\* is false for an empty range and for a file without a reconcilable entry;
\* no query changes the change-set.
C24_RangeIffSomeLine ==
    results # <<>> =>
        LET r == results[1]
            answers == LineAnswers(r.startLine, r.endLine)
        IN /\ r.value => (r.startLine <= r.endLine
                          /\ ~(/\ Cardinality(answers) = r.endLine - r.startLine + 1
                               /\ \A i \in answers : ~results[i].value))
           /\ ~r.value => \A i \in answers : ~results[i].value
           /\ findFileDiff(DiffInfo, ChangedFiles[1]) = {} =>
                 \A i \in DOMAIN results : ~results[i].value

\* IsLineInRange answered true from the entry "p/a", and IsLineAdded false
\* for every line of the range from the entry "a".
C24_Witness ==
    /\ Len(results) = 3
    /\ results[1].value /\ results[1].startLine = 1 /\ results[1].endLine = 2
    /\ results[1].found = <<RP>>
    /\ ~results[2].value /\ results[2].found = <<BA>> /\ results[2].lineNum = 1
    /\ ~results[3].value /\ results[3].found = <<BA>> /\ results[3].lineNum = 2

Zero2 == <<"0", ".", "0", "0", "%">>

NoDelta == [value |-> 0, gained |-> 0]

\* The rows of the table of the changed code files.
CodeRows ==
    IF report.files[1].codeFiles = <<>> THEN <<>> ELSE report.files[1].codeFiles[1].rows

\* C25 (percent floor): a percentage over no statements is written 0.00%:
\* the overall percentages of a coverage without statements, the percentage
\* of a changed file whose profile has no statements, the new-code
\* percentage PRCoverageInfo returns when totalNew is 0; a changed code file
\* that is in neither profile has the row 0.00%, the neutral delta and the
\* counts 0, 0, 0.
C25_PercentFloor ==
    report.summary # <<>> =>
        /\ TotalStmt(New) = 0 => report.summary[1].totalRow.newCov = Zero2
        /\ TotalStmt(Old) = 0 => report.summary[1].totalRow.oldCov = Zero2
        /\ results[1][1] = 0 => report.summary[1].pr.prCov = Zero2
        /\ \A i \in DOMAIN CodeRows :
              LET row == CodeRows[i]
              IN /\ (row.name \in DOMAIN New /\ New[row.name].TotalStmt = 0)
                       => row.newPercent = Zero2
                 /\ (row.name \notin DOMAIN New /\ row.name \notin DOMAIN Old) =>
                       /\ row.newPercent = Zero2
                       /\ row.score = [emoji |-> <<>>, diffStr |-> <<"ø">>]
                       /\ row.total = NoDelta
                       /\ row.covered = NoDelta
                       /\ row.missed = NoDelta

\* No new statements, and a changed file that is in neither profile.
C25_Witness ==
    /\ report.summary # <<>>
    /\ results[1][1] = 0
    /\ report.summary[1].pr.prCov = Zero2
    /\ \E i \in DOMAIN CodeRows :
          /\ CodeRows[i].name \notin DOMAIN New
          /\ CodeRows[i].name \notin DOMAIN Old
          /\ CodeRows[i].newPercent = Zero2

\* short is made of the trailing whole path segments of long.
PathSuffix(short, long) ==
    /\ short # <<>>
    /\ Len(short) < Len(long)
    /\ SubSeq(long, Len(long) - Len(short) + 1, Len(long)) = short
    /\ long[Len(long) - Len(short)] = "/"

\* C26 as stated (suffix matches are path suffixes): when findFileDiff
\* returns an entry whose key is not the query, the shorter of key and query
\* is made of the trailing whole path segments of the longer one.
C26_WholeSegmentSuffix ==
    \A i \in DOMAIN log :
        (log[i].found # <<>> /\ log[i].found[1] # log[i].file) =>
            \/ PathSuffix(log[i].found[1], log[i].file)
            \/ PathSuffix(log[i].file, log[i].found[1])

\* The file "ma" is given the change-set entry of "a".
C26_Witness ==
    \E i \in DOMAIN log : log[i].file = MA /\ log[i].found = <<BA>>

Within(covered, total) == 0 <= covered /\ covered <= total

\* The profiles are well formed.
ProfilesWellFormed ==
    \A cov \in {Old, New} : \A name \in DOMAIN cov :
        /\ Within(cov[name].CoveredStmt, cov[name].TotalStmt)
        /\ \A i \in DOMAIN cov[name].Blocks : cov[name].Blocks[i].NumStmt >= 0

\* C27 (covered within total): with well-formed profiles, the sums of
\* calculateNewCodeCoverage satisfy 0 <= coveredNew <= totalNew while the call
\* runs and in every result, with and without a change-set, and so does what
\* every file and every block adds.
C27_CoveredWithinTotal ==
    ProfilesWellFormed =>
        /\ Within(coveredNew, totalNew)
        /\ \A i \in DOMAIN results : Within(results[i][2], results[i][1])
        /\ \A i \in DOMAIN log :
              /\ Within(log[i].covered, log[i].total)
              /\ \A j \in DOMAIN log[i].blocks :
                    Within(log[i].blocks[j].covered, log[i].blocks[j].total)

\* A file evaluated block by block on its change-set lines, of which a
\* covered and an uncovered block add statements.
C27_Witness ==
    /\ ProfilesWellFormed
    /\ DiffInfo # <<>>
    /\ results # <<>>
    /\ \E i \in DOMAIN log :
          /\ log[i].case = "blocks"
          /\ 0 < log[i].covered /\ log[i].covered < log[i].total
          /\ results[1] = <<log[i].total, log[i].covered>>

\* C28 as stated (attribution bounded by the profile): a block adds at most
\* its NumStmt to totalNew and a file at most the TotalStmt of its new
\* profile, by the statement-accurate path, by the proportional estimate
\* with its floor of 1, and in the whole-file cases.
C28_BoundedByNumStmt ==
    \A i \in DOMAIN log :
        /\ log[i].file \in DOMAIN New => log[i].total <= New[log[i].file].TotalStmt
        /\ log[i].file \notin DOMAIN New => log[i].total = 0
        /\ \A j \in DOMAIN log[i].blocks :
              log[i].blocks[j].total <= log[i].blocks[j].block.NumStmt

\* The only block of a file has one statement and two changed lines that
\* start statements: the file adds two new statements.
C28_Witness ==
    \E i \in DOMAIN log :
        /\ log[i].case = "blocks"
        /\ New[log[i].file].TotalStmt = 1
        /\ Len(log[i].blocks) = 1
        /\ log[i].blocks[1].path = "ast"
        /\ log[i].blocks[1].block.NumStmt = 1
        /\ log[i].total = 2

\* ---------------------------------------------------------------- C29
\* What the blocks of the i-th changed file added to the totals of the last
\* calculateNewCodeCoverageFromDiff: block by block where the file was
\* evaluated by blocks, NumStmt per block where the whole profile was counted.
CountedBlocks(i) ==
    IF log[i].case = "absent" THEN <<>>
    ELSE IF log[i].case = "blocks"
    THEN [j \in 1..Len(log[i].blocks) |->
            [file |-> log[i].file, block |-> log[i].blocks[j].block,
             total |-> log[i].blocks[j].total, covered |-> log[i].blocks[j].covered]]
    ELSE [j \in 1..Len(New[log[i].file].Blocks) |->
            [file |-> log[i].file, block |-> New[log[i].file].Blocks[j],
             total |-> New[log[i].file].Blocks[j].NumStmt,
             covered |-> IF New[log[i].file].Blocks[j].Count > 0
                         THEN New[log[i].file].Blocks[j].NumStmt ELSE 0]]

RECURSIVE CountedFrom(_)
CountedFrom(i) ==
    IF i > Len(log) THEN <<>>
    ELSE SelectSeq(CountedBlocks(i), LAMBDA c : c.total > 0) \o CountedFrom(i + 1)

\* The totals and the block list of the same Report are both there.
TotalsAndBlocks ==
    /\ DiffInfo # <<>>
    /\ pc = "idle"
    /\ results # <<>>
    /\ newCodeBlocks # <<>>

\* C29 as stated (block list and totals agree with a change-set): the blocks
\* getNewCodeBlocksFromDiff returns are the blocks for which
\* calculateNewCodeCoverageFromDiff counted new statements, in the same
\* order, so the list is non-empty exactly when totalNew > 0, and a block is
\* marked covered exactly when it added to coveredNew.
C29_BlocksAgreeWithTotals ==
    TotalsAndBlocks =>
        LET counted == CountedFrom(1)
            list == newCodeBlocks[1]
        IN /\ Len(list) = Len(counted)
           /\ \A k \in 1..Len(list) :
                /\ [list[k] EXCEPT !.Lines = <<>>]
                      = NewCodeBlock(counted[k].file, counted[k].block)
                /\ list[k].Covered <=> counted[k].covered > 0
           /\ (results[Len(results)][1] > 0) <=> (list # <<>>)

\* The change-set names the file under two keys: the totals took the entry
\* without added lines and counted the whole profile, the block list took
\* the other entry for the file and the first again for the block's range,
\* and is empty.
C29_Witness ==
    /\ TotalsAndBlocks
    /\ results[Len(results)][1] > 0
    /\ newCodeBlocks[1] = <<>>
    /\ \E i \in DOMAIN log : log[i].case = "fallback" /\ log[i].found # <<>>

\* ---------------------------------------------------------------- legacy report
\* The Report without a change-set, MinCoverage and statement index: its
\* calculateNewCodeCoverage and the parts of its Markdown.

\* The loop over the blocks of a file that has an old profile.
RECURSIVE legacyNewBlocks(_, _, _)
legacyNewBlocks(oldBlocks, newBlocks, sums) ==
    IF newBlocks = <<>> THEN sums
    ELSE legacyNewBlocks(oldBlocks, Tail(newBlocks),
            IF blockKey(Head(newBlocks)) \notin oldBlocks
            THEN <<sums[1] + Head(newBlocks).NumStmt,
                   sums[2] + IF Head(newBlocks).Count > 0
                             THEN Head(newBlocks).NumStmt ELSE 0>>
            ELSE sums)

\* calculateNewCodeCoverage of the legacy Report: (totalNew, coveredNew)
\* after the loop over the changed files, from the sums so far.
RECURSIVE legacyCalculateNewCodeCoverage(_, _)
legacyCalculateNewCodeCoverage(files, sums) ==
    IF files = <<>> THEN sums
    ELSE legacyCalculateNewCodeCoverage(Tail(files),
            IF Head(files) \notin DOMAIN New THEN sums
            ELSE IF Head(files) \notin DOMAIN Old
            THEN <<sums[1] + New[Head(files)].TotalStmt,
                   sums[2] + New[Head(files)].CoveredStmt>>
            ELSE legacyNewBlocks(makeBlockMap(Old[Head(files)].Blocks),
                                 New[Head(files)].Blocks, sums))

\* Title of the legacy Report.
legacyTitle ==
    LET overallDelta == OverallCoverageDelta
        info == OverallCoverageInfo
    IN IF FloatCmpInt(overallDelta, 0) = 0
       THEN [newCov |-> info.newCov, deltaStr |-> <<>>, suffix |-> "(no change)"]
       ELSE IF FloatCmpInt(overallDelta, 0) > 0
       THEN [newCov |-> info.newCov, deltaStr |-> info.deltaStr, suffix |-> "**increase**"]
       ELSE [newCov |-> info.newCov, deltaStr |-> info.deltaStr, suffix |-> "**decrease**"]

\* addOverallCoverageSummary of the legacy Report on the sums of its
\* calculateNewCodeCoverage: the summary table and the statements table.
legacyAddOverallCoverageSummary(sums) ==
    [pr |-> PRCoverageInfo(sums[1], sums[2]),
     totalRow |-> OverallCoverageInfo,
     newCodeRow |-> IF sums[1] > 0 THEN <<PRCoverageInfo(sums[1], sums[2])>> ELSE <<>>,
     statements |-> [oldStmt |-> TotalStmt(Old), newStmt |-> TotalStmt(New),
                     oldCovered |-> CoveredStmt(Old), newCovered |-> CoveredStmt(New),
                     stmtChange |-> TotalStmt(New) - TotalStmt(Old),
                     coveredChange |-> CoveredStmt(New) - CoveredStmt(Old)]]

\* addPackageDetails of the legacy Report.
legacyAddPackageDetails ==
    [i \in DOMAIN ChangedPackages |->
        [pkg |-> ChangedPackages[i],
         newPercent |-> PercentText(PackagePercent(New, ChangedPackages[i])),
         score |-> emojiScore(PackagePercent(New, ChangedPackages[i]),
                              PackagePercent(Old, ChangedPackages[i]))]]

\* addFileDetails of the legacy Report.
legacyAddFileDetails ==
    LET unitTestFiles == SelectSeq(ChangedFiles, LAMBDA f : HasSuffix(f, TestSuffix))
        codeFiles == SelectSeq(ChangedFiles, LAMBDA f : ~HasSuffix(f, TestSuffix))
    IN [codeFiles |-> IF Len(codeFiles) > 0
                      THEN <<addCodeFileDetails(codeFiles)>> ELSE <<>>,
        unitTestFiles |-> IF Len(unitTestFiles) > 0
                          THEN <<addTestFileDetails(unitTestFiles)>> ELSE <<>>]

\* ---------------------------------------------------------------- C30
\* The tables of the summary the Report has written.
SummaryTables ==
    [f \in {"pr", "totalRow", "newCodeRow", "statements"} |-> report.summary[1][f]]

\* C30 (the Report without a change-set is the legacy Report): with DiffInfo
\* nil every result of calculateNewCodeCoverage is the (totalNew, coveredNew)
\* of the legacy calculateNewCodeCoverage on the same coverages and changed
\* files, and the title, the summary and statements tables, the package
\* table and the file table are those the legacy Report writes.
C30_LegacyWithoutChangeSet ==
    DiffInfo = <<>> =>
        /\ \A k \in DOMAIN results :
              results[k] = legacyCalculateNewCodeCoverage(ChangedFiles, <<0, 0>>)
        /\ (report.title # <<>> /\ results = <<>>) => report.title[1] = legacyTitle
        /\ (report.summary # <<>> /\ Len(results) = 1 /\ callsLeft = 1) =>
              /\ SummaryTables = legacyAddOverallCoverageSummary(
                                    legacyCalculateNewCodeCoverage(ChangedFiles, <<0, 0>>))
              /\ report.packages[1] = legacyAddPackageDetails
              /\ report.files[1] = legacyAddFileDetails

\* Without a change-set the summary is written for a changed file whose old
\* profile holds one of its blocks and not another, after a new file.
C30_Witness ==
    /\ DiffInfo = <<>>
    /\ report.summary # <<>>
    /\ results[1][1] > results[1][2]
    /\ report.summary[1].newCodeRow # <<>>
    /\ \E i \in DOMAIN log :
          /\ log[i].case = "identity"
          /\ \E j, k \in DOMAIN log[i].blocks :
                /\ log[i].blocks[j].path = "identity"
                /\ log[i].blocks[j].total > 0
                /\ log[i].blocks[k].path = "none"
    /\ \E i \in DOMAIN log : log[i].case = "new"

====
